---- MODULE Spec2Model ----
(***************************************************************************)
(* PC Bottleneck Analyzer: the analysis engine (src/lib/analysis.ts) and   *)
(* the hardware reference catalog (src/data/hardware-db.ts).               *)
(*                                                                         *)
(* Representation.  A JavaScript string is a sequence of one-character     *)
(* strings, so that toLowerCase, trim, includes and replace are computed   *)
(* character by character.  A nullable value is a sequence of length at    *)
(* most one: <<>> is null, <<v>> is the value v.  Clocks are in hundredths *)
(* of a GHz and VRAM sizes in tenths of a GB, so that every comparison of  *)
(* the source is an integer comparison.                                    *)
(***************************************************************************)
EXTENDS Integers, Sequences, FiniteSets

VARIABLES cpuDatabase, gpuDatabase, scan, result, calls, upgradesCall,
          loaded, error, gradeCall,
          hardened, latestScan, reading, response, lastCreated, requests

vars == <<cpuDatabase, gpuDatabase, scan, result, calls, upgradesCall,
          loaded, error, gradeCall,
          hardened, latestScan, reading, response, lastCreated, requests>>

\* the state of the /api/scan route module
routeVars == <<hardened, latestScan, reading, response, lastCreated, requests>>

\* the route module loaded and never requested
RouteIdle ==
  /\ hardened = FALSE
  /\ latestScan = <<>>
  /\ reading = <<>>
  /\ response = <<>>
  /\ lastCreated = <<>>
  /\ requests = 0

----------------------------------------------------------------------------
(* Bounds *)

\* number of successive analyzeScan calls on the loaded scan
MaxCalls == 2
\* longest storage list with more than one drive
MaxDrives == 2
\* largest synthetic catalog (SpecCatalog)
MaxCatalog == 3
\* largest catalog handed to getUpgrades directly (SpecUpgrades)
MaxListed == 4

----------------------------------------------------------------------------
(* JavaScript string and array primitives *)

UpperChars == <<"A","B","C","D","E","F","G","H","I","J","K","L","M","N","O","P","Q","R","S","T","U","V","W","X","Y","Z">>
LowerChars == <<"a","b","c","d","e","f","g","h","i","j","k","l","m","n","o","p","q","r","s","t","u","v","w","x","y","z">>

Whitespace == {" ", "\t", "\n", "\r"}

SetMin(S) == CHOOSE x \in S : \A y \in S : x <= y
SetMax(S) == CHOOSE x \in S : \A y \in S : x >= y

toLowerCaseChar(c) ==
  IF \E i \in 1..26 : UpperChars[i] = c
    THEN LowerChars[CHOOSE i \in 1..26 : UpperChars[i] = c]
    ELSE c

toLowerCase(s) == [i \in 1..Len(s) |-> toLowerCaseChar(s[i])]

trim(s) ==
  LET keep == {i \in 1..Len(s) : s[i] \notin Whitespace}
  IN  IF keep = {} THEN <<>> ELSE SubSeq(s, SetMin(keep), SetMax(keep))

includes(s, sub) ==
  \E i \in 0..(Len(s) - Len(sub)) : SubSeq(s, i + 1, i + Len(sub)) = sub

\* Array.prototype.filter: the elements at the indices idx, in index order
SelectIdx(seq, idx) ==
  LET ranked == {<<Cardinality({j \in idx : j < i}) + 1, i>> : i \in idx}
  IN  [p \in 1..Cardinality(idx) |-> seq[(CHOOSE r \in ranked : r[1] = p)[2]]]

\* Array.prototype.sort; less[i, j] tells whether the comparator is negative
\* for (seq[i], seq[j]).  The sort is stable: an element ends up behind the
\* elements that are less than it and behind those of its equals that stood in
\* front of it.
StableSort(seq, less) ==
  LET n == Len(seq)
      ahead(i) == {j \in 1..n : less[j, i] \/ (j < i /\ ~less[i, j])}
      ranked == {<<Cardinality(ahead(i)) + 1, i>> : i \in 1..n}
  IN  [p \in 1..n |-> seq[(CHOOSE r \in ranked : r[1] = p)[2]]]

----------------------------------------------------------------------------
(* Hardware catalog *)

CpuCatalog ==
  <<
    [key |-> <<"a","m","d"," ","r","y","z","e","n"," ","9"," ","9","9","5","0","x","3","d">>,
     tier |-> "very_high", gaming_score |-> 97, current_price_approx |-> 699],
    [key |-> <<"a","m","d"," ","r","y","z","e","n"," ","9"," ","9","9","0","0","x","3","d">>,
     tier |-> "very_high", gaming_score |-> 96, current_price_approx |-> 599],
    [key |-> <<"a","m","d"," ","r","y","z","e","n"," ","7"," ","9","8","5","0","x","3","d">>,
     tier |-> "very_high", gaming_score |-> 99, current_price_approx |-> 499],
    [key |-> <<"a","m","d"," ","r","y","z","e","n"," ","7"," ","9","8","0","0","x","3","d">>,
     tier |-> "very_high", gaming_score |-> 98, current_price_approx |-> 449],
    [key |-> <<"a","m","d"," ","r","y","z","e","n"," ","9"," ","9","9","5","0","x">>,
     tier |-> "very_high", gaming_score |-> 97, current_price_approx |-> 549],
    [key |-> <<"a","m","d"," ","r","y","z","e","n"," ","9"," ","9","9","0","0","x">>,
     tier |-> "very_high", gaming_score |-> 94, current_price_approx |-> 399],
    [key |-> <<"a","m","d"," ","r","y","z","e","n"," ","7"," ","9","7","0","0","x">>,
     tier |-> "high", gaming_score |-> 90, current_price_approx |-> 299],
    [key |-> <<"a","m","d"," ","r","y","z","e","n"," ","5"," ","9","6","0","0","x">>,
     tier |-> "high", gaming_score |-> 86, current_price_approx |-> 229],
    [key |-> <<"a","m","d"," ","r","y","z","e","n"," ","9"," ","7","9","5","0","x">>,
     tier |-> "very_high", gaming_score |-> 93, current_price_approx |-> 449],
    [key |-> <<"a","m","d"," ","r","y","z","e","n"," ","9"," ","7","9","0","0","x">>,
     tier |-> "very_high", gaming_score |-> 91, current_price_approx |-> 349],
    [key |-> <<"a","m","d"," ","r","y","z","e","n"," ","7"," ","7","8","0","0","x","3","d">>,
     tier |-> "very_high", gaming_score |-> 96, current_price_approx |-> 339],
    [key |-> <<"a","m","d"," ","r","y","z","e","n"," ","7"," ","7","7","0","0","x">>,
     tier |-> "high", gaming_score |-> 87, current_price_approx |-> 249],
    [key |-> <<"a","m","d"," ","r","y","z","e","n"," ","5"," ","7","6","0","0","x">>,
     tier |-> "high", gaming_score |-> 84, current_price_approx |-> 199],
    [key |-> <<"a","m","d"," ","r","y","z","e","n"," ","5"," ","7","6","0","0">>,
     tier |-> "high", gaming_score |-> 82, current_price_approx |-> 179],
    [key |-> <<"a","m","d"," ","r","y","z","e","n"," ","7"," ","5","7","0","0","x","3","d">>,
     tier |-> "high", gaming_score |-> 83, current_price_approx |-> 189],
    [key |-> <<"a","m","d"," ","r","y","z","e","n"," ","7"," ","5","7","0","0","x">>,
     tier |-> "high", gaming_score |-> 75, current_price_approx |-> 149],
    [key |-> <<"a","m","d"," ","r","y","z","e","n"," ","9"," ","5","9","5","0","x">>,
     tier |-> "high", gaming_score |-> 82, current_price_approx |-> 349],
    [key |-> <<"a","m","d"," ","r","y","z","e","n"," ","9"," ","5","9","0","0","x">>,
     tier |-> "high", gaming_score |-> 81, current_price_approx |-> 249],
    [key |-> <<"a","m","d"," ","r","y","z","e","n"," ","7"," ","5","8","0","0","x">>,
     tier |-> "high", gaming_score |-> 78, current_price_approx |-> 169],
    [key |-> <<"a","m","d"," ","r","y","z","e","n"," ","7"," ","5","8","0","0","x","3","d">>,
     tier |-> "high", gaming_score |-> 85, current_price_approx |-> 249],
    [key |-> <<"a","m","d"," ","r","y","z","e","n"," ","5"," ","5","6","0","0","x">>,
     tier |-> "mid", gaming_score |-> 72, current_price_approx |-> 119],
    [key |-> <<"i","n","t","e","l"," ","c","o","r","e"," ","u","l","t","r","a"," ","9"," ","2","8","5","k">>,
     tier |-> "very_high", gaming_score |-> 90, current_price_approx |-> 449],
    [key |-> <<"i","n","t","e","l"," ","c","o","r","e"," ","u","l","t","r","a"," ","7"," ","2","6","5","k">>,
     tier |-> "high", gaming_score |-> 86, current_price_approx |-> 249],
    [key |-> <<"i","n","t","e","l"," ","c","o","r","e"," ","u","l","t","r","a"," ","5"," ","2","4","5","k">>,
     tier |-> "high", gaming_score |-> 82, current_price_approx |-> 209],
    [key |-> <<"i","n","t","e","l"," ","c","o","r","e"," ","i","9","-","1","4","9","0","0","k">>,
     tier |-> "very_high", gaming_score |-> 95, current_price_approx |-> 439],
    [key |-> <<"i","n","t","e","l"," ","c","o","r","e"," ","i","7","-","1","4","7","0","0","k">>,
     tier |-> "very_high", gaming_score |-> 92, current_price_approx |-> 329],
    [key |-> <<"i","n","t","e","l"," ","c","o","r","e"," ","i","5","-","1","4","6","0","0","k">>,
     tier |-> "high", gaming_score |-> 87, current_price_approx |-> 249],
    [key |-> <<"i","n","t","e","l"," ","c","o","r","e"," ","i","5","-","1","4","4","0","0","f">>,
     tier |-> "mid", gaming_score |-> 75, current_price_approx |-> 159],
    [key |-> <<"i","n","t","e","l"," ","c","o","r","e"," ","i","9","-","1","3","9","0","0","k">>,
     tier |-> "very_high", gaming_score |-> 93, current_price_approx |-> 379],
    [key |-> <<"i","n","t","e","l"," ","c","o","r","e"," ","i","7","-","1","3","7","0","0","k">>,
     tier |-> "high", gaming_score |-> 89, current_price_approx |-> 289],
    [key |-> <<"i","n","t","e","l"," ","c","o","r","e"," ","i","5","-","1","3","6","0","0","k">>,
     tier |-> "high", gaming_score |-> 85, current_price_approx |-> 219],
    [key |-> <<"i","n","t","e","l"," ","c","o","r","e"," ","i","5","-","1","3","4","0","0","f">>,
     tier |-> "mid", gaming_score |-> 72, current_price_approx |-> 149],
    [key |-> <<"i","n","t","e","l"," ","c","o","r","e"," ","i","9","-","1","2","9","0","0","k">>,
     tier |-> "high", gaming_score |-> 84, current_price_approx |-> 269],
    [key |-> <<"i","n","t","e","l"," ","c","o","r","e"," ","i","7","-","1","2","7","0","0","k">>,
     tier |-> "high", gaming_score |-> 82, current_price_approx |-> 219],
    [key |-> <<"i","n","t","e","l"," ","c","o","r","e"," ","i","5","-","1","2","6","0","0","k">>,
     tier |-> "mid", gaming_score |-> 76, current_price_approx |-> 169],
    [key |-> <<"i","n","t","e","l"," ","c","o","r","e"," ","i","5","-","1","2","4","0","0","f">>,
     tier |-> "mid", gaming_score |-> 68, current_price_approx |-> 109],
    [key |-> <<"i","n","t","e","l"," ","c","o","r","e"," ","i","3","-","1","4","1","0","0","f">>,
     tier |-> "low", gaming_score |-> 60, current_price_approx |-> 89],
    [key |-> <<"a","m","d"," ","r","y","z","e","n"," ","5"," ","5","5","0","0">>,
     tier |-> "low", gaming_score |-> 58, current_price_approx |-> 89],
    [key |-> <<"i","n","t","e","l"," ","c","o","r","e"," ","i","3","-","1","2","1","0","0","f">>,
     tier |-> "low", gaming_score |-> 55, current_price_approx |-> 79],
    [key |-> <<"a","m","d"," ","r","y","z","e","n"," ","5"," ","3","6","0","0">>,
     tier |-> "low", gaming_score |-> 52, current_price_approx |-> 79]
  >>

GpuCatalog ==
  <<
    [key |-> <<"n","v","i","d","i","a"," ","g","e","f","o","r","c","e"," ","r","t","x"," ","5","0","9","0">>,
     tier |-> "very_high", gaming_score |-> 100, current_price_approx |-> 2199],
    [key |-> <<"n","v","i","d","i","a"," ","g","e","f","o","r","c","e"," ","r","t","x"," ","5","0","8","0">>,
     tier |-> "very_high", gaming_score |-> 90, current_price_approx |-> 1099],
    [key |-> <<"n","v","i","d","i","a"," ","g","e","f","o","r","c","e"," ","r","t","x"," ","5","0","7","0"," ","t","i">>,
     tier |-> "very_high", gaming_score |-> 84, current_price_approx |-> 849],
    [key |-> <<"n","v","i","d","i","a"," ","g","e","f","o","r","c","e"," ","r","t","x"," ","5","0","7","0">>,
     tier |-> "high", gaming_score |-> 78, current_price_approx |-> 629],
    [key |-> <<"n","v","i","d","i","a"," ","g","e","f","o","r","c","e"," ","r","t","x"," ","5","0","6","0"," ","t","i">>,
     tier |-> "high", gaming_score |-> 70, current_price_approx |-> 429],
    [key |-> <<"n","v","i","d","i","a"," ","g","e","f","o","r","c","e"," ","r","t","x"," ","5","0","6","0">>,
     tier |-> "mid", gaming_score |-> 58, current_price_approx |-> 299],
    [key |-> <<"n","v","i","d","i","a"," ","g","e","f","o","r","c","e"," ","r","t","x"," ","4","0","9","0">>,
     tier |-> "very_high", gaming_score |-> 96, current_price_approx |-> 1799],
    [key |-> <<"n","v","i","d","i","a"," ","g","e","f","o","r","c","e"," ","r","t","x"," ","4","0","8","0"," ","s","u","p","e","r">>,
     tier |-> "very_high", gaming_score |-> 86, current_price_approx |-> 949],
    [key |-> <<"n","v","i","d","i","a"," ","g","e","f","o","r","c","e"," ","r","t","x"," ","4","0","8","0">>,
     tier |-> "very_high", gaming_score |-> 84, current_price_approx |-> 899],
    [key |-> <<"n","v","i","d","i","a"," ","g","e","f","o","r","c","e"," ","r","t","x"," ","4","0","7","0"," ","t","i"," ","s","u","p","e","r">>,
     tier |-> "high", gaming_score |-> 80, current_price_approx |-> 749],
    [key |-> <<"n","v","i","d","i","a"," ","g","e","f","o","r","c","e"," ","r","t","x"," ","4","0","7","0"," ","t","i">>,
     tier |-> "high", gaming_score |-> 76, current_price_approx |-> 649],
    [key |-> <<"n","v","i","d","i","a"," ","g","e","f","o","r","c","e"," ","r","t","x"," ","4","0","7","0"," ","s","u","p","e","r">>,
     tier |-> "high", gaming_score |-> 73, current_price_approx |-> 569],
    [key |-> <<"n","v","i","d","i","a"," ","g","e","f","o","r","c","e"," ","r","t","x"," ","4","0","7","0">>,
     tier |-> "high", gaming_score |-> 68, current_price_approx |-> 499],
    [key |-> <<"n","v","i","d","i","a"," ","g","e","f","o","r","c","e"," ","r","t","x"," ","4","0","6","0"," ","t","i">>,
     tier |-> "mid", gaming_score |-> 58, current_price_approx |-> 369],
    [key |-> <<"n","v","i","d","i","a"," ","g","e","f","o","r","c","e"," ","r","t","x"," ","4","0","6","0">>,
     tier |-> "mid", gaming_score |-> 50, current_price_approx |-> 279],
    [key |-> <<"n","v","i","d","i","a"," ","g","e","f","o","r","c","e"," ","r","t","x"," ","3","0","9","0"," ","t","i">>,
     tier |-> "high", gaming_score |-> 75, current_price_approx |-> 899],
    [key |-> <<"n","v","i","d","i","a"," ","g","e","f","o","r","c","e"," ","r","t","x"," ","3","0","9","0">>,
     tier |-> "high", gaming_score |-> 72, current_price_approx |-> 799],
    [key |-> <<"n","v","i","d","i","a"," ","g","e","f","o","r","c","e"," ","r","t","x"," ","3","0","8","0"," ","t","i">>,
     tier |-> "high", gaming_score |-> 70, current_price_approx |-> 549],
    [key |-> <<"n","v","i","d","i","a"," ","g","e","f","o","r","c","e"," ","r","t","x"," ","3","0","8","0">>,
     tier |-> "high", gaming_score |-> 67, current_price_approx |-> 499],
    [key |-> <<"n","v","i","d","i","a"," ","g","e","f","o","r","c","e"," ","r","t","x"," ","3","0","7","0"," ","t","i">>,
     tier |-> "mid", gaming_score |-> 62, current_price_approx |-> 369],
    [key |-> <<"n","v","i","d","i","a"," ","g","e","f","o","r","c","e"," ","r","t","x"," ","3","0","7","0">>,
     tier |-> "mid", gaming_score |-> 58, current_price_approx |-> 329],
    [key |-> <<"n","v","i","d","i","a"," ","g","e","f","o","r","c","e"," ","r","t","x"," ","3","0","6","0"," ","t","i">>,
     tier |-> "mid", gaming_score |-> 52, current_price_approx |-> 269],
    [key |-> <<"n","v","i","d","i","a"," ","g","e","f","o","r","c","e"," ","r","t","x"," ","3","0","6","0">>,
     tier |-> "mid", gaming_score |-> 44, current_price_approx |-> 229],
    [key |-> <<"n","v","i","d","i","a"," ","g","e","f","o","r","c","e"," ","g","t","x"," ","1","6","6","0"," ","s","u","p","e","r">>,
     tier |-> "low", gaming_score |-> 30, current_price_approx |-> 139],
    [key |-> <<"n","v","i","d","i","a"," ","g","e","f","o","r","c","e"," ","g","t","x"," ","1","6","5","0">>,
     tier |-> "very_low", gaming_score |-> 20, current_price_approx |-> 99],
    [key |-> <<"i","n","t","e","l"," ","a","r","c"," ","b","5","8","0">>,
     tier |-> "mid", gaming_score |-> 46, current_price_approx |-> 249],
    [key |-> <<"i","n","t","e","l"," ","a","r","c"," ","b","5","7","0">>,
     tier |-> "mid", gaming_score |-> 42, current_price_approx |-> 219],
    [key |-> <<"i","n","t","e","l"," ","a","r","c"," ","a","7","7","0">>,
     tier |-> "mid", gaming_score |-> 42, current_price_approx |-> 219],
    [key |-> <<"a","m","d"," ","r","a","d","e","o","n"," ","r","x"," ","9","0","7","0"," ","x","t">>,
     tier |-> "high", gaming_score |-> 76, current_price_approx |-> 579],
    [key |-> <<"a","m","d"," ","r","a","d","e","o","n"," ","r","x"," ","9","0","7","0">>,
     tier |-> "high", gaming_score |-> 68, current_price_approx |-> 479],
    [key |-> <<"a","m","d"," ","r","a","d","e","o","n"," ","r","x"," ","9","0","6","0"," ","x","t">>,
     tier |-> "mid", gaming_score |-> 55, current_price_approx |-> 349],
    [key |-> <<"a","m","d"," ","r","a","d","e","o","n"," ","r","x"," ","7","9","0","0"," ","x","t","x">>,
     tier |-> "very_high", gaming_score |-> 85, current_price_approx |-> 849],
    [key |-> <<"a","m","d"," ","r","a","d","e","o","n"," ","r","x"," ","7","9","0","0"," ","x","t">>,
     tier |-> "high", gaming_score |-> 78, current_price_approx |-> 699],
    [key |-> <<"a","m","d"," ","r","a","d","e","o","n"," ","r","x"," ","7","8","0","0"," ","x","t">>,
     tier |-> "high", gaming_score |-> 65, current_price_approx |-> 429],
    [key |-> <<"a","m","d"," ","r","a","d","e","o","n"," ","r","x"," ","7","7","0","0"," ","x","t">>,
     tier |-> "mid", gaming_score |-> 58, current_price_approx |-> 379],
    [key |-> <<"a","m","d"," ","r","a","d","e","o","n"," ","r","x"," ","7","6","0","0">>,
     tier |-> "mid", gaming_score |-> 45, current_price_approx |-> 239],
    [key |-> <<"a","m","d"," ","r","a","d","e","o","n"," ","r","x"," ","6","9","5","0"," ","x","t">>,
     tier |-> "high", gaming_score |-> 70, current_price_approx |-> 499],
    [key |-> <<"a","m","d"," ","r","a","d","e","o","n"," ","r","x"," ","6","8","0","0"," ","x","t">>,
     tier |-> "high", gaming_score |-> 65, current_price_approx |-> 389],
    [key |-> <<"a","m","d"," ","r","a","d","e","o","n"," ","r","x"," ","6","7","0","0"," ","x","t">>,
     tier |-> "mid", gaming_score |-> 48, current_price_approx |-> 249],
    [key |-> <<"a","m","d"," ","r","a","d","e","o","n"," ","r","x"," ","6","6","0","0">>,
     tier |-> "low", gaming_score |-> 35, current_price_approx |-> 169]
  >>

\* What an index expression database[key] finds on Object.prototype when the
\* object literal has no own property of that name: the only lower-case names
\* there are "constructor" (the Object function) and "__proto__"
\* (Object.prototype itself); both values are truthy and carry no tier.
ObjectPrototypeKeys ==
  { <<"c","o","n","s","t","r","u","c","t","o","r">>,
    <<"_","_","p","r","o","t","o","_","_">> }

\* null, as returned by lookupCPU / lookupGPU
NoEntry == [key |-> <<>>, tier |-> "null", gaming_score |-> 0, current_price_approx |-> 0]

\* an inherited property value: truthy, tier undefined; gaming_score and
\* current_price_approx are undefined as well and are never read.
PrototypeValue(key) ==
  [key |-> key, tier |-> "undefined", gaming_score |-> 0, current_price_approx |-> 0]

truthy(e) == e.tier # "null"

TIER_ORDER == <<"very_low", "low", "mid", "high", "very_high">>

\* Array.prototype.indexOf: 0-based, -1 when absent
tierIndex(tier) ==
  IF \E i \in 1..Len(TIER_ORDER) : TIER_ORDER[i] = tier
    THEN (CHOOSE i \in 1..Len(TIER_ORDER) : TIER_ORDER[i] = tier) - 1
    ELSE -1

normalize(modelName) == trim(toLowerCase(modelName))

\* The body shared by lookupCPU and lookupGPU.  Object.entries enumerates the
\* (non-numeric) keys in declaration order.
lookup(database, modelName) ==
  LET key    == normalize(modelName)
      own    == {i \in 1..Len(database) : database[i].key = key}
      fuzzy  == {i \in 1..Len(database) :
                   includes(key, database[i].key) \/ includes(database[i].key, key)}
  IN  IF own # {} THEN database[CHOOSE i \in own : TRUE]
      ELSE IF key \in ObjectPrototypeKeys THEN PrototypeValue(key)
      ELSE IF fuzzy # {} THEN database[SetMin(fuzzy)]
      ELSE NoEntry

lookupCPU(modelName) == lookup(cpuDatabase, modelName)

lookupGPU(modelName) == lookup(gpuDatabase, modelName)

\* price || 1
priceOrOne(entry) ==
  IF entry.current_price_approx = 0 THEN 1 ELSE entry.current_price_approx

\* the comparison on gaming_score alone, the price left out
valueGreater_scoreOnly(a, b) == a.gaming_score > b.gaming_score

\* aValue > bValue for aValue = a.gaming_score / (a.current_price_approx || 1),
\* decided on the cross products (the sign of the denominators' product kept)
valueGreater(a, b) ==
  LET pa == priceOrOne(a)
      pb == priceOrOne(b)
      d  == a.gaming_score * pb - b.gaming_score * pa
  IN  IF pa * pb > 0 THEN d > 0 ELSE d < 0

slice(seq, n) == IF Len(seq) <= n THEN seq ELSE SubSeq(seq, 1, n)

getUpgrades(current, database, maxResults) ==
  LET currentTier == tierIndex(current.tier)
      higher == SelectIdx(database,
                  {i \in 1..Len(database) : tierIndex(database[i].tier) > currentTier})
      sorted == StableSort(higher,
                  [i, j \in 1..Len(higher) |-> valueGreater(higher[i], higher[j])])
  IN  slice(sorted, maxResults)

----------------------------------------------------------------------------
(* Helpers of the engine *)

IsNull(v) == v = <<>>

\* sum / length as the pair <<sum, length>>; 0 for the empty list
sum(nums) ==
  LET acc[k \in 0..Len(nums)] == IF k = 0 THEN 0 ELSE acc[k - 1] + nums[k]
  IN  acc[Len(nums)]

average(nums) == IF Len(nums) = 0 THEN <<0, 1>> ELSE <<sum(nums), Len(nums)>>

AvgGt(avg, x) == avg[1] > x * avg[2]
AvgLt(avg, x) == avg[1] < x * avg[2]

\* Math.min(max, value) alone: the lower bound forgotten
clamp_noFloor(value, min, max) == IF max < value THEN max ELSE value

clamp(value, min, max) ==
  LET capped == IF max < value THEN max ELSE value
  IN  IF min > capped THEN min ELSE capped

Digits == <<"0","1","2","3","4","5","6","7","8","9">>

\* `${n}` for an integer n
RECURSIVE numberToString(_)
numberToString(n) ==
  IF n < 0 THEN <<"-">> \o numberToString(0 - n)
  ELSE IF n < 10 THEN <<Digits[n + 1]>>
  ELSE numberToString(n \div 10) \o <<Digits[(n % 10) + 1]>>

Bottleneck(id, category, severity) ==
  [id |-> <<id>>, category |-> category, severity |-> severity]

When(cond, b) == IF cond THEN <<b>> ELSE <<>>

has(bottlenecks, id) ==
  \E i \in 1..Len(bottlenecks) : bottlenecks[i].id = <<id>>

hasCritical(bottlenecks, id) ==
  \E i \in 1..Len(bottlenecks) :
    bottlenecks[i].id = <<id>> /\ bottlenecks[i].severity = "critical"

----------------------------------------------------------------------------
(* Rule evaluators *)

\* current_clock_ghz < max_boost_clock_ghz * 0.85, both positive
belowBoost(cpu) ==
  /\ cpu.current_clock_ghz > 0
  /\ cpu.max_boost_clock_ghz > 0
  /\ cpu.current_clock_ghz * 100 < cpu.max_boost_clock_ghz * 85

detectCPUBottlenecks(s, cpuEntry, gpuEntry) ==
  LET avgCpuUsage == average(s.cpu.usage_per_core)
      gpuUtil     == s.gpu.gpu_utilization_pct
  IN  (IF AvgGt(avgCpuUsage, 90) /\ gpuUtil < 60
         THEN <<Bottleneck("cpu-high-usage", "cpu", "critical")>>
       ELSE IF AvgGt(avgCpuUsage, 80) /\ gpuUtil < 70
         THEN <<Bottleneck("cpu-moderate-usage", "cpu", "warning")>>
       ELSE <<>>)
      \o When(/\ truthy(cpuEntry) /\ truthy(gpuEntry)
              /\ tierIndex(gpuEntry.tier) - tierIndex(cpuEntry.tier) >= 2,
              Bottleneck("cpu-gpu-tier-mismatch", "cpu", "warning"))
      \o When(belowBoost(s.cpu) /\ AvgGt(avgCpuUsage, 50),
              Bottleneck("cpu-not-boosting", "cpu", "warning"))

\* the ratio without its guard: x / 0 is Infinity for x > 0 and NaN for x = 0
vramNearlyFull_unguarded(gpu) ==
  IF gpu.vram_total_gb = 0 THEN gpu.vram_used_gb > 0
  ELSE gpu.vram_used_gb * 10 > gpu.vram_total_gb * 9

\* vram_total_gb > 0 && vram_used_gb / vram_total_gb > 0.9
vramNearlyFull(gpu) ==
  gpu.vram_total_gb > 0 /\ gpu.vram_used_gb * 10 > gpu.vram_total_gb * 9

detectGPUBottlenecks(s, cpuEntry, gpuEntry) ==
  LET avgCpuUsage == average(s.cpu.usage_per_core)
      gpuUtil     == s.gpu.gpu_utilization_pct
  IN  When(gpuUtil > 95 /\ AvgLt(avgCpuUsage, 60),
           Bottleneck("gpu-limited", "gpu", "info"))
      \o When(vramNearlyFull(s.gpu),
              Bottleneck("gpu-vram-full", "gpu", "warning"))
      \o When(/\ truthy(cpuEntry) /\ truthy(gpuEntry)
              /\ tierIndex(cpuEntry.tier) - tierIndex(gpuEntry.tier) >= 2,
              Bottleneck("gpu-cpu-tier-mismatch", "gpu", "warning"))

isDDR4(ram) == includes(toLowerCase(ram.form_factor), <<"d","d","r","4">>)
isDDR5(ram) == includes(toLowerCase(ram.form_factor), <<"d","d","r","5">>)

detectRAMBottlenecks(s) ==
  When(s.ram.channel_mode = "single",
       Bottleneck("ram-single-channel", "ram", "critical"))
  \o When(s.ram.total_gb < 16,
          Bottleneck("ram-low-capacity", "ram", "warning"))
  \o When(s.ram.usage_percent > 85,
          Bottleneck("ram-high-usage", "ram", "warning"))
  \o When(isDDR4(s.ram) /\ s.ram.speed_mhz < 3000,
          Bottleneck("ram-slow-speed", "ram", "critical"))
  \o When(isDDR5(s.ram) /\ s.ram.speed_mhz < 4800,
          Bottleneck("ram-slow-speed-ddr5", "ram", "critical"))

\* scan.storage.find((d) => d.is_boot_drive), as an index; 0 when undefined
\* the last flagged drive instead of the first
bootDriveIndex_last(storage) ==
  LET flagged == {i \in 1..Len(storage) : storage[i].is_boot_drive}
  IN  IF flagged = {} THEN 0 ELSE CHOOSE i \in flagged : \A j \in flagged : j <= i

bootDriveIndex(storage) ==
  LET flagged == {i \in 1..Len(storage) : storage[i].is_boot_drive}
  IN  IF flagged = {} THEN 0 ELSE SetMin(flagged)

\* used_gb / capacity_gb > tenths / 10, behind the capacity_gb > 0 guard
usageOver(drive, tenths) ==
  drive.capacity_gb > 0 /\ drive.used_gb * 10 > drive.capacity_gb * tenths

HealthyWords ==
  { <<"g","o","o","d">>, <<"o","k">>, <<"h","e","a","l","t","h","y">> }

\* health_status && !["good","ok","healthy"].includes(health_status.toLowerCase())
unhealthy(drive) ==
  /\ ~IsNull(drive.health_status)
  /\ drive.health_status[1] # <<>>
  /\ toLowerCase(drive.health_status[1]) \notin HealthyWords

\* model.replace(/\s+/g, "-")
replaceWhitespaceRuns(s) ==
  LET dashed == [i \in 1..Len(s) |-> IF s[i] \in Whitespace THEN "-" ELSE s[i]]
      first  == {i \in 1..Len(s) :
                   s[i] \in Whitespace => (i = 1 \/ s[i - 1] \notin Whitespace)}
  IN  SelectIdx(dashed, first)

healthId(drive) ==
  <<"storage-health-">> \o toLowerCase(replaceWhitespaceRuns(drive.model))

\* the loop over all drives, one finding per unhealthy drive, in list order
healthFindings(storage) ==
  SelectIdx([i \in 1..Len(storage) |->
               [id |-> healthId(storage[i]), category |-> "storage",
                severity |-> "critical"]],
            {i \in 1..Len(storage) : unhealthy(storage[i])})

detectStorageBottlenecks(s) ==
  LET b == bootDriveIndex(s.storage)
      hasNVMe == \E i \in 1..Len(s.storage) : s.storage[i].type = "NVMe SSD"
  IN  When(b # 0 /\ s.storage[b].type = "HDD",
           Bottleneck("storage-hdd-boot", "storage", "critical"))
      \o (IF b # 0 /\ usageOver(s.storage[b], 9)
            THEN <<Bottleneck("storage-boot-almost-full", "storage", "warning")>>
          ELSE IF b # 0 /\ usageOver(s.storage[b], 8)
            THEN <<Bottleneck("storage-boot-getting-full", "storage", "info")>>
          ELSE <<>>)
      \o When(~hasNVMe, Bottleneck("storage-no-nvme", "storage", "info"))
      \o healthFindings(s.storage)

detectThermalBottlenecks(s) ==
  LET cpuTemp == s.cpu.current_temp_c
      gpuTemp == s.gpu.current_temp_c
  IN  (IF ~IsNull(cpuTemp) /\ cpuTemp[1] > 85
         THEN <<Bottleneck("thermal-cpu-critical", "thermal", "critical")>>
       ELSE IF ~IsNull(cpuTemp) /\ cpuTemp[1] > 75
         THEN <<Bottleneck("thermal-cpu-warm", "thermal", "info")>>
       ELSE <<>>)
      \o (IF ~IsNull(gpuTemp) /\ gpuTemp[1] > 85
            THEN <<Bottleneck("thermal-gpu-hot", "thermal", "warning")>>
          ELSE IF ~IsNull(gpuTemp) /\ gpuTemp[1] > 80
            THEN <<Bottleneck("thermal-gpu-warm", "thermal", "info")>>
          ELSE <<>>)

planIncludes(s, word) == includes(toLowerCase(s.os.power_plan), word)

HighPerformance == <<"h","i","g","h"," ","p","e","r","f","o","r","m","a","n","c","e">>
Ultimate == <<"u","l","t","i","m","a","t","e">>
Balanced == <<"b","a","l","a","n","c","e","d">>

\* the settings rules without the Resizable BAR rule
detectSettingsBottlenecks_noRebar(s) ==
  When(~planIncludes(s, HighPerformance) /\ ~planIncludes(s, Ultimate),
       Bottleneck("settings-power-plan", "settings", "warning"))
  \o When(s.bios_settings.xmp_enabled = "false",
          Bottleneck("settings-xmp-off", "settings", "critical"))
  \o When(s.os.hw_accelerated_gpu_scheduling = "false",
          Bottleneck("settings-gpu-scheduling", "settings", "info"))
  \o When(s.os.game_mode = "false",
          Bottleneck("settings-game-mode-off", "settings", "info"))

detectSettingsBottlenecks(s) ==
  When(~planIncludes(s, HighPerformance) /\ ~planIncludes(s, Ultimate),
       Bottleneck("settings-power-plan", "settings", "warning"))
  \o When(s.bios_settings.xmp_enabled = "false",
          Bottleneck("settings-xmp-off", "settings", "critical"))
  \o When(s.bios_settings.resizable_bar = "false",
          Bottleneck("settings-rebar-off", "settings", "info"))
  \o When(s.os.hw_accelerated_gpu_scheduling = "false",
          Bottleneck("settings-gpu-scheduling", "settings", "info"))
  \o When(s.os.game_mode = "false",
          Bottleneck("settings-game-mode-off", "settings", "info"))

----------------------------------------------------------------------------
(* Recommendation builder *)

\* priority in place of priority++
postIncrement_stuck(priority) == priority

\* priority++ : the value the counter holds afterwards
postIncrement(priority) == priority + 1

Candidate(fires, id, tier, cost) ==
  [fires |-> fires, id |-> id, tier |-> tier, estimated_cost |-> cost]

\* the if-blocks of buildRecommendations in textual order: a block that fires
\* pushes its recommendation with the current counter value
pushAll(candidates, priority) ==
  LET fired == SelectIdx(candidates,
                         {i \in 1..Len(candidates) : candidates[i].fires})
      counter[p \in 1..Len(fired)] ==
        IF p = 1 THEN priority ELSE postIncrement(counter[p - 1])
  IN  [p \in 1..Len(fired) |->
         [id |-> fired[p].id, tier |-> fired[p].tier,
          estimated_cost |-> fired[p].estimated_cost, priority |-> counter[p]]]

\* the XMP recommendation tied to the settings finding only
needsXmp_settingsOnly(bottlenecks) == has(bottlenecks, "settings-xmp-off")

needsXmp(bottlenecks) ==
  \/ has(bottlenecks, "settings-xmp-off")
  \/ hasCritical(bottlenecks, "ram-slow-speed")
  \/ hasCritical(bottlenecks, "ram-slow-speed-ddr5")

prices(upgrades) == {upgrades[i].current_price_approx : i \in 1..Len(upgrades)}

\* the range written from the top pick to the last pick
upgradeCost_topToLast(upgrades) ==
  <<"$">> \o numberToString(upgrades[1].current_price_approx)
    \o <<" - $">> \o numberToString(upgrades[Len(upgrades)].current_price_approx)

\* `$${Math.min(...prices)} - $${Math.max(...prices)}`
upgradeCost(upgrades) ==
  <<"$">> \o numberToString(SetMin(prices(upgrades)))
    \o <<" - $">> \o numberToString(SetMax(prices(upgrades)))

costOrNone(upgrades) == IF upgrades = <<>> THEN <<>> ELSE upgradeCost(upgrades)

buildRecommendations(s, bottlenecks, cpuEntry, gpuEntry) ==
  LET cpuUpgrades ==
        IF /\ truthy(cpuEntry)
           /\ (has(bottlenecks, "cpu-high-usage")
               \/ has(bottlenecks, "cpu-gpu-tier-mismatch"))
          THEN getUpgrades(cpuEntry, cpuDatabase, 2) ELSE <<>>
      gpuUpgrades ==
        IF /\ truthy(gpuEntry)
           /\ (has(bottlenecks, "gpu-limited")
               \/ has(bottlenecks, "gpu-cpu-tier-mismatch"))
          THEN getUpgrades(gpuEntry, gpuDatabase, 2) ELSE <<>>
  IN  pushAll(
        << Candidate(needsXmp(bottlenecks),
                     "rec-enable-xmp", "free", <<"$0">>),
           Candidate(has(bottlenecks, "settings-power-plan"),
                     "rec-power-plan", "free", <<"$0">>),
           Candidate(has(bottlenecks, "settings-rebar-off"),
                     "rec-enable-rebar", "free", <<"$0">>),
           Candidate(has(bottlenecks, "settings-gpu-scheduling"),
                     "rec-gpu-scheduling", "free", <<"$0">>),
           Candidate(has(bottlenecks, "cpu-not-boosting"),
                     "rec-check-boost", "free", <<"$0">>),
           Candidate(has(bottlenecks, "thermal-cpu-critical"),
                     "rec-cpu-cooling", "cheap", <<"$5 - $45">>),
           Candidate(has(bottlenecks, "ram-single-channel"),
                     "rec-second-ram-stick", "cheap", <<"$25 - $60">>),
           Candidate(has(bottlenecks, "ram-low-capacity"),
                     "rec-more-ram", "cheap", <<"$35 - $50">>),
           Candidate(has(bottlenecks, "storage-hdd-boot"),
                     "rec-ssd-boot", "cheap", <<"$25 - $60">>),
           Candidate(Len(cpuUpgrades) > 0,
                     "rec-cpu-upgrade", "upgrade", costOrNone(cpuUpgrades)),
           Candidate(Len(gpuUpgrades) > 0,
                     "rec-gpu-upgrade", "upgrade", costOrNone(gpuUpgrades)) >>,
        1)

----------------------------------------------------------------------------
(* Scorer *)

\* tierScores[tier] ?? 14
tierScores(tier) ==
  CASE tier = "very_high" -> 22
    [] tier = "high"      -> 18
    [] tier = "mid"       -> 14
    [] tier = "low"       -> 10
    [] tier = "very_low"  -> 6
    [] OTHER              -> 14

\* let cpuScore = 25 / let gpuScore = 25, overwritten only when the entry is truthy
baseScore(entry) == IF truthy(entry) THEN tierScores(entry.tier) ELSE 25

cpuThermalPenalty(cpu) ==
  IF ~IsNull(cpu.current_temp_c) /\ cpu.current_temp_c[1] > 85 THEN 5
  ELSE IF ~IsNull(cpu.current_temp_c) /\ cpu.current_temp_c[1] > 75 THEN 2
  ELSE 0

\* the deduction tied to a busy CPU as well, as the cpu-not-boosting rule is
cpuBoostPenalty_whenBusy(cpu) ==
  IF belowBoost(cpu) /\ AvgGt(average(cpu.usage_per_core), 50) THEN 3 ELSE 0

cpuBoostPenalty(cpu) == IF belowBoost(cpu) THEN 3 ELSE 0

\* the GPU deduction without the lesser band
gpuThermalPenalty_hotOnly(gpu) ==
  IF ~IsNull(gpu.current_temp_c) /\ gpu.current_temp_c[1] > 85 THEN 4 ELSE 0

gpuThermalPenalty(gpu) ==
  IF ~IsNull(gpu.current_temp_c) /\ gpu.current_temp_c[1] > 85 THEN 4
  ELSE IF ~IsNull(gpu.current_temp_c) /\ gpu.current_temp_c[1] > 80 THEN 2
  ELSE 0

gpuVramPenalty(gpu) == IF vramNearlyFull(gpu) THEN 3 ELSE 0

ramSpeedPenalty(ram) ==
  (IF isDDR4(ram) /\ ram.speed_mhz < 3000 THEN 8
   ELSE IF isDDR4(ram) /\ ram.speed_mhz < 3200 THEN 3
   ELSE 0)
  +
  (IF isDDR5(ram) /\ ram.speed_mhz < 4800 THEN 8
   ELSE IF isDDR5(ram) /\ ram.speed_mhz < 5600 THEN 3
   ELSE 0)

\* the RAM score with the speed deduction alone
ramScoreOf_speedOnly(ram) == clamp(20 - ramSpeedPenalty(ram), 0, 20)

ramScoreOf(ram) ==
  clamp(20 - ramSpeedPenalty(ram)
           - (IF ram.channel_mode = "single" THEN 10 ELSE 0)
           - (IF ram.total_gb < 16 THEN 5 ELSE IF ram.total_gb < 32 THEN 1 ELSE 0)
           - (IF ram.usage_percent > 85 THEN 3 ELSE 0),
        0, 20)

\* the base that tells NVMe from everything else
storageBase_nvmeOrNot(drive) == IF drive.type = "NVMe SSD" THEN 15 ELSE 8

storageBase(drive) ==
  IF drive.type = "NVMe SSD" THEN 15
  ELSE IF drive.type = "SATA SSD" THEN 10
  ELSE IF drive.type = "HDD" THEN 5
  ELSE 8

storageUsagePenalty(drive) ==
  IF usageOver(drive, 9) THEN 3 ELSE IF usageOver(drive, 8) THEN 1 ELSE 0

storageHealthPenalty(drive) == IF unhealthy(drive) THEN 5 ELSE 0

storageScoreOf(storage) ==
  LET b == bootDriveIndex(storage)
  IN  clamp(IF b = 0 THEN 15
            ELSE storageBase(storage[b]) - storageUsagePenalty(storage[b])
                                         - storageHealthPenalty(storage[b]),
            0, 15)

powerPlanPoints(s) ==
  IF planIncludes(s, Ultimate) THEN 3
  ELSE IF planIncludes(s, HighPerformance) THEN 3
  ELSE IF planIncludes(s, Balanced) THEN 1
  ELSE 0

xmpPoints(s) ==
  IF s.bios_settings.xmp_enabled = "true" THEN 5
  ELSE IF s.bios_settings.xmp_enabled = "null" THEN 2
  ELSE 0

settingsScoreOf(s) ==
  clamp(powerPlanPoints(s) + xmpPoints(s)
          + (IF Len(s.gpu.driver_version) > 0 THEN 2 ELSE 0)
          + (IF s.bios_settings.resizable_bar = "true" THEN 2 ELSE 0)
          + (IF s.os.game_mode = "true" THEN 1 ELSE 0)
          + (IF s.os.hw_accelerated_gpu_scheduling = "true" THEN 2 ELSE 0),
        0, 15)

\* the grades with the A threshold exclusive
getGrade_above90(total) ==
  IF total > 90 THEN
    [grade |-> "A", grade_description |-> "Your system is optimized. Nice work."]
  ELSE IF total >= 80 THEN
    [grade |-> "A-",
     grade_description |-> "Great setup. A few tweaks could squeeze out more performance."]
  ELSE IF total >= 70 THEN
    [grade |-> "B",
     grade_description |-> "Good, but you're leaving performance on the table."]
  ELSE IF total >= 60 THEN
    [grade |-> "C",
     grade_description |-> "Several bottlenecks detected. Easy fixes available."]
  ELSE
    [grade |-> "D",
     grade_description |-> "Significant issues found. Major free performance gains possible."]

getGrade(total) ==
  IF total >= 90 THEN
    [grade |-> "A", grade_description |-> "Your system is optimized. Nice work."]
  ELSE IF total >= 80 THEN
    [grade |-> "A-",
     grade_description |-> "Great setup. A few tweaks could squeeze out more performance."]
  ELSE IF total >= 70 THEN
    [grade |-> "B",
     grade_description |-> "Good, but you're leaving performance on the table."]
  ELSE IF total >= 60 THEN
    [grade |-> "C",
     grade_description |-> "Several bottlenecks detected. Easy fixes available."]
  ELSE
    [grade |-> "D",
     grade_description |-> "Significant issues found. Major free performance gains possible."]

calculateScore(s, bottlenecks, cpuEntry, gpuEntry) ==
  LET cpuScore == clamp(baseScore(cpuEntry) - cpuThermalPenalty(s.cpu)
                          - cpuBoostPenalty(s.cpu), 0, 25)
      gpuScore == clamp(baseScore(gpuEntry) - gpuThermalPenalty(s.gpu)
                          - gpuVramPenalty(s.gpu), 0, 25)
      ramScore == ramScoreOf(s.ram)
      storageScore == storageScoreOf(s.storage)
      settingsScore == settingsScoreOf(s)
      total == cpuScore + gpuScore + ramScore + storageScore + settingsScore
      g == getGrade(total)
  IN  [total |-> total, grade |-> g.grade, grade_description |-> g.grade_description,
       breakdown |-> [cpu |-> cpuScore, gpu |-> gpuScore, ram |-> ramScore,
                      storage |-> storageScore, settings |-> settingsScore]]

----------------------------------------------------------------------------
(* Entry point *)

severityOrder(severity) ==
  CASE severity = "critical" -> 0
    [] severity = "warning"  -> 1
    [] severity = "info"     -> 2
    [] severity = "good"     -> 3

tierOrder(tier) ==
  CASE tier = "free"    -> 0
    [] tier = "cheap"   -> 1
    [] tier = "upgrade" -> 2

bySeverity(a, b) == severityOrder(a.severity) - severityOrder(b.severity) < 0

byTierThenPriority(a, b) ==
  LET tierDiff == tierOrder(a.tier) - tierOrder(b.tier)
  IN  IF tierDiff # 0 THEN tierDiff < 0 ELSE a.priority - b.priority < 0

reverse(seq) == [i \in 1..Len(seq) |-> seq[Len(seq) + 1 - i]]

\* a sort that orders by severity but does not keep equal elements in place
sortBottlenecks_unstable(bottlenecks) ==
  LET reversed == reverse(bottlenecks)
  IN  StableSort(reversed,
        [i, j \in 1..Len(reversed) |-> bySeverity(reversed[i], reversed[j])])

sortBottlenecks(bottlenecks) ==
  StableSort(bottlenecks,
    [i, j \in 1..Len(bottlenecks) |-> bySeverity(bottlenecks[i], bottlenecks[j])])

sortRecommendations(recommendations) ==
  StableSort(recommendations,
    [i, j \in 1..Len(recommendations) |->
       byTierThenPriority(recommendations[i], recommendations[j])])

\* the findings in the order the six evaluators push them
detectAll(s, cpuEntry, gpuEntry) ==
  detectCPUBottlenecks(s, cpuEntry, gpuEntry)
  \o detectGPUBottlenecks(s, cpuEntry, gpuEntry)
  \o detectRAMBottlenecks(s)
  \o detectStorageBottlenecks(s)
  \o detectThermalBottlenecks(s)
  \o detectSettingsBottlenecks(s)

analyzeScan(s) ==
  LET cpuEntry == lookupCPU(s.cpu.model_name)
      gpuEntry == lookupGPU(s.gpu.model_name)
      detected == detectAll(s, cpuEntry, gpuEntry)
      recommendations == buildRecommendations(s, detected, cpuEntry, gpuEntry)
      bottlenecks == sortBottlenecks(detected)
  IN  [score |-> calculateScore(s, bottlenecks, cpuEntry, gpuEntry),
       bottlenecks |-> bottlenecks,
       recommendations |-> sortRecommendations(recommendations)]

----------------------------------------------------------------------------
(* Scans: the inputs of analyzeScan *)

\* 'AMD Ryzen 7 5800X'
Ryzen7_5800X == <<"A","M","D"," ","R","y","z","e","n"," ","7"," ","5","8","0","0","X">>
\* 'AMD Ryzen 5 3600'
Ryzen5_3600 == <<"A","M","D"," ","R","y","z","e","n"," ","5"," ","3","6","0","0">>
\* '  Intel Core i9-14900K '
CoreI9_14900K_padded == <<" "," ","I","n","t","e","l"," ","C","o","r","e"," ","i","9","-","1","4","9","0","0","K"," ">>
\* 'AMD Ryzen 7 5800X3D 8-Core Processor'
Ryzen7_5800X3D_long == <<"A","M","D"," ","R","y","z","e","n"," ","7"," ","5","8","0","0","X","3","D"," ","8","-","C","o","r","e"," ","P","r","o","c","e","s","s","o","r">>
\* 'Zhaoxin KX-7000'
UnknownCpu == <<"Z","h","a","o","x","i","n"," ","K","X","-","7","0","0","0">>
\* 'Constructor'
ConstructorName == <<"C","o","n","s","t","r","u","c","t","o","r">>
\* 'NVIDIA GeForce RTX 4070 Ti'
RTX4070Ti == <<"N","V","I","D","I","A"," ","G","e","F","o","r","c","e"," ","R","T","X"," ","4","0","7","0"," ","T","i">>
\* 'NVIDIA GeForce GTX 1650'
GTX1650 == <<"N","V","I","D","I","A"," ","G","e","F","o","r","c","e"," ","G","T","X"," ","1","6","5","0">>
\* 'NVIDIA GeForce RTX 4090'
RTX4090 == <<"N","V","I","D","I","A"," ","G","e","F","o","r","c","e"," ","R","T","X"," ","4","0","9","0">>
\* 'Matrox G200'
UnknownGpu == <<"M","a","t","r","o","x"," ","G","2","0","0">>
\* 'DIMM DDR4'
DimmDDR4 == <<"D","I","M","M"," ","D","D","R","4">>
\* 'DIMM DDR5'
DimmDDR5 == <<"D","I","M","M"," ","D","D","R","5">>
\* 'DIMM'
DimmOnly == <<"D","I","M","M">>
\* 'DDR4/DDR5'
DDR4orDDR5 == <<"D","D","R","4","/","D","D","R","5">>
\* 'Balanced'
PlanBalanced == <<"B","a","l","a","n","c","e","d">>
\* 'High performance'
PlanHighPerformance == <<"H","i","g","h"," ","p","e","r","f","o","r","m","a","n","c","e">>
\* 'Ultimate Performance'
PlanUltimate == <<"U","l","t","i","m","a","t","e"," ","P","e","r","f","o","r","m","a","n","c","e">>
\* 'Power saver'
PlanPowerSaver == <<"P","o","w","e","r"," ","s","a","v","e","r">>
\* 'Good'
HealthGood == <<"G","o","o","d">>
\* 'Caution'
HealthCaution == <<"C","a","u","t","i","o","n">>
\* '566.14'
Driver566 == <<"5","6","6",".","1","4">>
\* 'Samsung 980 Pro 1TB'
Samsung980Pro == <<"S","a","m","s","u","n","g"," ","9","8","0"," ","P","r","o"," ","1","T","B">>
\* 'Seagate Barracuda 2TB'
SeagateBarracuda == <<"S","e","a","g","a","t","e"," ","B","a","r","r","a","c","u","d","a"," ","2","T","B">>
\* 'WD Blue 1TB'
WDBlue == <<"W","D"," ","B","l","u","e"," ","1","T","B">>
\* 'wd  blue 1tb'
WDBlueSpaced == <<"w","d"," "," ","b","l","u","e"," ","1","t","b">>

\* src/data/sample-scan.ts, the fields the engine reads
sampleScan ==
  [cpu |-> [model_name |-> Ryzen7_5800X, max_boost_clock_ghz |-> 470,
            current_clock_ghz |-> 445, current_temp_c |-> <<62>>,
            usage_per_core |-> <<45, 52, 38, 61, 55, 42, 48, 50,
                                 30, 35, 28, 40, 33, 29, 31, 36>>],
   gpu |-> [model_name |-> RTX4070Ti, vram_total_gb |-> 120, vram_used_gb |-> 78,
            current_temp_c |-> <<68>>, driver_version |-> Driver566,
            gpu_utilization_pct |-> 88],
   ram |-> [total_gb |-> 32, speed_mhz |-> 2133, channel_mode |-> "dual",
            form_factor |-> DimmDDR4, usage_percent |-> 44],
   storage |-> << [model |-> Samsung980Pro, type |-> "NVMe SSD", capacity_gb |-> 953,
                   used_gb |-> 612, health_status |-> <<HealthGood>>,
                   is_boot_drive |-> TRUE],
                  [model |-> SeagateBarracuda, type |-> "HDD", capacity_gb |-> 1863,
                   used_gb |-> 1240, health_status |-> <<HealthGood>>,
                   is_boot_drive |-> FALSE] >>,
   os |-> [power_plan |-> PlanBalanced, game_mode |-> "true",
           hw_accelerated_gpu_scheduling |-> "false"],
   bios_settings |-> [xmp_enabled |-> "false", resizable_bar |-> "false"]]

\* a second baseline: every subsystem in trouble
stressedScan ==
  [cpu |-> [model_name |-> Ryzen5_3600, max_boost_clock_ghz |-> 420,
            current_clock_ghz |-> 300, current_temp_c |-> <<90>>,
            usage_per_core |-> <<95, 96>>],
   gpu |-> [model_name |-> GTX1650, vram_total_gb |-> 40, vram_used_gb |-> 39,
            current_temp_c |-> <<90>>, driver_version |-> <<>>,
            gpu_utilization_pct |-> 50],
   ram |-> [total_gb |-> 8, speed_mhz |-> 2133, channel_mode |-> "single",
            form_factor |-> DimmDDR4, usage_percent |-> 90],
   storage |-> << [model |-> WDBlue, type |-> "HDD", capacity_gb |-> 1000,
                   used_gb |-> 950, health_status |-> <<HealthCaution>>,
                   is_boot_drive |-> TRUE] >>,
   os |-> [power_plan |-> PlanPowerSaver, game_mode |-> "false",
           hw_accelerated_gpu_scheduling |-> "false"],
   bios_settings |-> [xmp_enabled |-> "null", resizable_bar |-> "null"]]

Baselines == {sampleScan, stressedScan}

\* '' and '  '
EmptyName == <<>>
BlankName == <<" ", " ">>

CpuNames == {Ryzen7_5800X, Ryzen5_3600, CoreI9_14900K_padded, Ryzen7_5800X3D_long,
             UnknownCpu, ConstructorName, EmptyName, BlankName}
GpuNames == {RTX4070Ti, GTX1650, RTX4090, UnknownGpu, BlankName}
Temps == {<<>>, <<62>>, <<78>>, <<83>>, <<90>>}
Usages == {<<>>, <<45, 52>>, <<55, 58>>, <<85, 86>>, <<95, 96>>}
Utils == {50, 65, 88, 96}
\* <<current_clock_ghz, max_boost_clock_ghz>>
Clocks == {<<445, 470>>, <<300, 470>>, <<0, 470>>}
\* <<vram_total_gb, vram_used_gb>>
Vrams == {<<120, 78>>, <<120, 115>>, <<0, 78>>, <<0, 0>>}
TriState == {"true", "false", "null"}

CpuSections ==
  {[model_name |-> n, max_boost_clock_ghz |-> c[2], current_clock_ghz |-> c[1],
    current_temp_c |-> t, usage_per_core |-> u] :
     n \in CpuNames, c \in Clocks, t \in Temps \ {<<83>>}, u \in Usages}

GpuSections ==
  {[model_name |-> n, vram_total_gb |-> v[1], vram_used_gb |-> v[2],
    current_temp_c |-> t, driver_version |-> d, gpu_utilization_pct |-> g] :
     n \in GpuNames, v \in Vrams, t \in Temps \ {<<78>>}, d \in {<<>>, Driver566},
     g \in Utils}

RamSections ==
  {[total_gb |-> g, speed_mhz |-> m, channel_mode |-> c, form_factor |-> f,
    usage_percent |-> u] :
     g \in {8, 16, 32}, m \in {2133, 3100, 3200, 5000, 6000},
     c \in {"single", "dual"}, f \in {DimmDDR4, DimmDDR5, DimmOnly, DDR4orDDR5},
     u \in {40, 90}}

\* <<capacity_gb, used_gb>>
Fills == {<<953, 612>>, <<1000, 850>>, <<1000, 950>>, <<0, 0>>, <<0, 20>>}

Drives ==
  {[model |-> m, type |-> t, capacity_gb |-> f[1], used_gb |-> f[2],
    health_status |-> h, is_boot_drive |-> b] :
     m \in {WDBlue}, t \in {"NVMe SSD", "SATA SSD", "HDD", "Unknown"}, f \in Fills,
     h \in {<<>>, <<HealthGood>>, <<HealthCaution>>, << <<>> >>}, b \in BOOLEAN}

\* the drives that are combined into longer storage lists
ListDrives ==
  {[model |-> m, type |-> t, capacity_gb |-> 1000, used_gb |-> u,
    health_status |-> <<h>>, is_boot_drive |-> b] :
     m \in {WDBlue, WDBlueSpaced}, t \in {"NVMe SSD", "HDD"}, u \in {950},
     h \in {HealthGood, HealthCaution}, b \in BOOLEAN}

RECURSIVE Lists(_, _)
Lists(S, n) ==
  IF n = 0 THEN {<<>>}
  ELSE {<<x>> \o l : x \in S, l \in Lists(S, n - 1)}

StorageLists ==
  {<<d>> : d \in Drives}
  \cup UNION {Lists(ListDrives, n) : n \in 2..MaxDrives}

SettingsSections ==
  {[os |-> [power_plan |-> p, game_mode |-> g, hw_accelerated_gpu_scheduling |-> h],
    bios_settings |-> [xmp_enabled |-> x, resizable_bar |-> r]] :
     p \in {PlanBalanced, PlanHighPerformance, PlanUltimate, PlanPowerSaver},
     g \in TriState, h \in TriState, x \in TriState \cup {"undefined"}, r \in TriState}

\* CPU load against GPU load, for every pairing of catalog tiers
LoadScans ==
  {[sampleScan EXCEPT !.cpu.model_name = cn, !.cpu.usage_per_core = u,
                      !.gpu.model_name = gn, !.gpu.gpu_utilization_pct = g] :
     cn \in CpuNames, u \in Usages, gn \in GpuNames, g \in Utils}

ScanSet ==
  {[b EXCEPT !.cpu = c] : b \in Baselines, c \in CpuSections}
  \cup {[b EXCEPT !.gpu = g] : b \in Baselines, g \in GpuSections}
  \cup {[b EXCEPT !.ram = r] : b \in Baselines, r \in RamSections}
  \cup {[b EXCEPT !.storage = l] : b \in Baselines, l \in StorageLists}
  \cup {[b EXCEPT !.os = x.os, !.bios_settings = x.bios_settings] :
          b \in Baselines, x \in SettingsSections}
  \cup LoadScans

----------------------------------------------------------------------------
(* The state machine: a scan is loaded, analyzeScan runs on it *)

Init ==
  /\ cpuDatabase = CpuCatalog
  /\ gpuDatabase = GpuCatalog
  /\ scan \in ScanSet
  /\ result = <<>>
  /\ calls = 0
  /\ upgradesCall = <<>>
  /\ loaded = <<>>
  /\ error = <<>>
  /\ gradeCall = <<>>
  /\ RouteIdle

\* the analysis with getUpgrades sorting the CPU catalog itself, not a copy
AnalyzeScan_sortsCatalog ==
  /\ calls < MaxCalls
  /\ result' = <<analyzeScan(scan)>>
  /\ calls' = calls + 1
  /\ cpuDatabase' = StableSort(cpuDatabase,
                      [i, j \in 1..Len(cpuDatabase) |->
                         valueGreater(cpuDatabase[i], cpuDatabase[j])])
  /\ UNCHANGED <<gpuDatabase, scan, upgradesCall, loaded, error, gradeCall, routeVars>>

\* handleScanLoaded: setAnalysis(analyzeScan(data)); the catalogs are module
\* constants that analyzeScan only reads (getUpgrades sorts Object.values)
AnalyzeScan ==
  /\ calls < MaxCalls
  /\ result' = <<analyzeScan(scan)>>
  /\ calls' = calls + 1
  /\ UNCHANGED <<cpuDatabase, gpuDatabase, scan, upgradesCall, loaded, error, gradeCall, routeVars>>

Next == AnalyzeScan

Spec == Init /\ [][Next]_vars

----------------------------------------------------------------------------
(* Synthetic catalogs: every composition of tiers, scores and prices *)

PartKey(i) == <<"p","a","r","t"," ", Digits[i + 1]>>

\* "Part 1"
PartOne == <<"P","a","r","t"," ","1">>

CatalogEntries(i) ==
  {[key |-> PartKey(i), tier |-> t, gaming_score |-> g, current_price_approx |-> p] :
     t \in {"low", "high"}, g \in {10, 90}, p \in {0, 100, 300}}

RECURSIVE CatalogsOfLength(_)
CatalogsOfLength(n) ==
  IF n = 0 THEN {<<>>}
  ELSE {c \o <<e>> : c \in CatalogsOfLength(n - 1), e \in CatalogEntries(n)}

SmallCatalogs == UNION {CatalogsOfLength(n) : n \in 1..MaxCatalog}

\* a CPU-bound and a GPU-bound load on the part the catalog lists first
CatalogScans ==
  {[sampleScan EXCEPT !.cpu.model_name = PartOne, !.gpu.model_name = PartOne,
                      !.cpu.usage_per_core = u[1], !.gpu.gpu_utilization_pct = u[2]] :
     u \in {<< <<95, 96>>, 50 >>, << <<45, 52>>, 96 >>}}

InitCatalog ==
  /\ cpuDatabase \in SmallCatalogs
  /\ gpuDatabase = cpuDatabase
  /\ scan \in CatalogScans
  /\ result = <<>>
  /\ calls = 0
  /\ upgradesCall = <<>>
  /\ loaded = <<>>
  /\ error = <<>>
  /\ gradeCall = <<>>
  /\ RouteIdle

SpecCatalog == InitCatalog /\ [][Next]_vars

----------------------------------------------------------------------------
(* getUpgrades called directly, on every small catalog *)

\* maxResults = 3 in the parameter list: an omitted argument (<<>>) is 3
maxResultsOrDefault(arg) == IF arg = <<>> THEN 3 ELSE arg[1]

ListedEntries(i) ==
  {[key |-> PartKey(i), tier |-> e[1], gaming_score |-> e[2],
    current_price_approx |-> e[3]] :
     e \in {<<"low", 10, 100>>, <<"high", 10, 0>>, <<"high", 10, 100>>,
            <<"high", 90, 100>>, <<"high", 90, 300>>}}

RECURSIVE ListedOfLength(_)
ListedOfLength(n) ==
  IF n = 0 THEN {<<>>}
  ELSE {c \o <<e>> : c \in ListedOfLength(n - 1), e \in ListedEntries(n)}

ListedCatalogs == UNION {ListedOfLength(n) : n \in 1..MaxListed}

\* the part owned now: only its tier is read
CurrentEntries ==
  {[key |-> <<"o","w","n","e","d">>, tier |-> t, gaming_score |-> 50,
    current_price_approx |-> 200] : t \in {"very_low", "low", "high"}}

MaxResultsArgs == {<<>>, <<1>>, <<2>>}

InitUpgrades ==
  /\ cpuDatabase \in ListedCatalogs
  /\ gpuDatabase = cpuDatabase
  /\ scan = sampleScan
  /\ result = <<>>
  /\ calls = 0
  /\ upgradesCall = <<>>
  /\ loaded = <<>>
  /\ error = <<>>
  /\ gradeCall = <<>>
  /\ RouteIdle

GetUpgrades ==
  /\ calls < MaxCalls
  /\ \E current \in CurrentEntries, arg \in MaxResultsArgs :
       upgradesCall' = <<[current |-> current,
                      maxResults |-> maxResultsOrDefault(arg),
                      returned |-> getUpgrades(current, cpuDatabase,
                                               maxResultsOrDefault(arg))]>>
  /\ calls' = calls + 1
  /\ UNCHANGED <<cpuDatabase, gpuDatabase, scan, result, loaded, error, gradeCall, routeVars>>

NextUpgrades == GetUpgrades

SpecUpgrades == InitUpgrades /\ [][NextUpgrades]_vars

----------------------------------------------------------------------------
(* The ideal system: top-tier parts, fast dual-channel DDR5, NVMe boot drive,
   every toggle on; the remaining fields vary *)

IdealScans ==
  {[cpu |-> [model_name |-> CoreI9_14900K_padded, max_boost_clock_ghz |-> c[2],
             current_clock_ghz |-> c[1], current_temp_c |-> ct,
             usage_per_core |-> <<40, 60>>],
    gpu |-> [model_name |-> RTX4090, vram_total_gb |-> v[1], vram_used_gb |-> v[2],
             current_temp_c |-> <<68>>, driver_version |-> dv,
             gpu_utilization_pct |-> 80],
    ram |-> [total_gb |-> 32, speed_mhz |-> 6000, channel_mode |-> "dual",
             form_factor |-> DimmDDR5, usage_percent |-> ru],
    storage |-> << [model |-> Samsung980Pro, type |-> "NVMe SSD",
                    capacity_gb |-> 1000, used_gb |-> 500, health_status |-> h,
                    is_boot_drive |-> TRUE] >>,
    os |-> [power_plan |-> p, game_mode |-> "true",
            hw_accelerated_gpu_scheduling |-> "true"],
    bios_settings |-> [xmp_enabled |-> "true", resizable_bar |-> "true"]] :
     c \in {<<580, 600>>, <<400, 600>>, <<0, 600>>}, ct \in {<<>>, <<70>>},
     v \in {<<240, 120>>, <<240, 230>>, <<0, 0>>}, dv \in {Driver566, <<>>},
     ru \in {44, 90}, h \in {<<>>, <<HealthGood>>, <<HealthCaution>>},
     p \in {PlanBalanced, PlanHighPerformance, PlanUltimate, PlanPowerSaver}}

InitIdeal ==
  /\ cpuDatabase = CpuCatalog
  /\ gpuDatabase = GpuCatalog
  /\ scan \in IdealScans
  /\ result = <<>>
  /\ calls = 0
  /\ upgradesCall = <<>>
  /\ loaded = <<>>
  /\ error = <<>>
  /\ gradeCall = <<>>
  /\ RouteIdle

SpecIdeal == InitIdeal /\ [][Next]_vars

----------------------------------------------------------------------------
(* The upload path: ScanUploader hands a document to the Home page *)

\* the top-level sections of SystemScan that hold an object or a list
RequiredSections ==
  {"cpu", "gpu", "ram", "storage", "motherboard", "os", "network", "bios_settings"}

\* the sections analyzeScan dereferences
ReadSections == {"cpu", "gpu", "ram", "storage", "os", "bios_settings"}

SectionSets ==
  { {}, {"cpu", "gpu"}, {"cpu", "gpu", "ram"}, {"cpu", "gpu", "ram", "storage"},
    {"cpu", "gpu", "ram", "storage", "os"}, ReadSections, RequiredSections }

\* A parsed JSON document: sections is the set of top-level keys that hold a
\* non-null object (a list for storage); fields tells whether those sections
\* carry their typed sub-fields or are empty objects; content is what the
\* sections hold when they do.
Documents ==
  {[sections |-> S, fields |-> f, content |-> c] :
     S \in SectionSets, f \in {"typed", "empty"},
     c \in {sampleScan, stressedScan, [sampleScan EXCEPT !.storage = <<>>]}}

\* a dropped or selected file: its size against the 2 MB limit, whether its
\* text is JSON, and the document it parses to
Files ==
  {[tooLarge |-> big, parses |-> json, data |-> doc] :
     big \in BOOLEAN, json \in BOOLEAN, doc \in Documents}

sampleDocument ==
  [sections |-> RequiredSections, fields |-> "typed", content |-> sampleScan]

validateScan(data) == {"cpu", "gpu", "ram"} \subseteq data.sections

\* analyzeScan reads scan.cpu.model_name first and later scan.storage.find,
\* scan.os.power_plan and scan.bios_settings.xmp_enabled: a missing section or
\* sub-field is a TypeError
analyzeScanThrows(data) ==
  \/ ~(ReadSections \subseteq data.sections)
  \/ data.fields = "empty"

\* the uploader is rendered while the page has no scan or no analysis
uploaderShown == loaded = <<>> \/ result = <<>>

\* handleScanLoaded(data): setScan(data), then setAnalysis(analyzeScan(data));
\* when analyzeScan throws, the scan is set and the analysis is not
handleScanLoaded(data) ==
  /\ loaded' = <<data>>
  /\ IF analyzeScanThrows(data)
       THEN UNCHANGED <<scan, result>>
       ELSE scan' = data.content /\ result' = <<analyzeScan(data.content)>>

InitUpload ==
  /\ cpuDatabase = CpuCatalog
  /\ gpuDatabase = GpuCatalog
  /\ scan = sampleScan
  /\ result = <<>>
  /\ calls = 0
  /\ upgradesCall = <<>>
  /\ loaded = <<>>
  /\ error = <<>>
  /\ gradeCall = <<>>
  /\ RouteIdle

\* processFile(file), its awaits taken as one step
ProcessFile ==
  /\ uploaderShown
  /\ calls < MaxCalls
  /\ calls' = calls + 1
  /\ \E file \in Files :
       IF file.tooLarge
         THEN /\ error' = <<"File is too large. Maximum size is 2 MB.">>
              /\ UNCHANGED <<scan, result, loaded>>
       ELSE IF ~file.parses
         THEN /\ error' = <<"Failed to parse JSON. Make sure the file is valid JSON.">>
              /\ UNCHANGED <<scan, result, loaded>>
       ELSE IF ~validateScan(file.data)
         THEN /\ error' = <<"Invalid scan file. JSON must contain cpu, gpu, and ram fields.">>
              /\ UNCHANGED <<scan, result, loaded>>
       ELSE /\ handleScanLoaded(file.data)
            /\ error' = IF analyzeScanThrows(file.data)
                           THEN <<"Failed to parse JSON. Make sure the file is valid JSON.">>
                           ELSE <<>>
  /\ UNCHANGED <<cpuDatabase, gpuDatabase, upgradesCall, gradeCall, routeVars>>

\* handleDemoClick: setError(null), then onScanLoaded(sampleScan)
HandleDemoClick ==
  /\ uploaderShown
  /\ calls < MaxCalls
  /\ calls' = calls + 1
  /\ error' = <<>>
  /\ handleScanLoaded(sampleDocument)
  /\ UNCHANGED <<cpuDatabase, gpuDatabase, upgradesCall, gradeCall, routeVars>>

\* handleReset, behind the New Scan button that is rendered while a scan is
\* set; the uploader mounts afresh when the dashboard was showing
HandleReset ==
  /\ loaded # <<>>
  /\ loaded' = <<>>
  /\ result' = <<>>
  /\ error' = IF result # <<>> THEN <<>> ELSE error
  /\ UNCHANGED <<cpuDatabase, gpuDatabase, scan, calls, upgradesCall, gradeCall, routeVars>>

NextUpload == ProcessFile \/ HandleDemoClick \/ HandleReset

SpecUpload == InitUpload /\ [][NextUpload]_vars

----------------------------------------------------------------------------
(* Properties *)

Analyzed == result # <<>>

FindingIds == {result[1].bottlenecks[i].id : i \in 1..Len(result[1].bottlenecks)}

Found(id) == <<id>> \in FindingIds

FoundCritical(id) ==
  \E i \in 1..Len(result[1].bottlenecks) :
    /\ result[1].bottlenecks[i].id = <<id>>
    /\ result[1].bottlenecks[i].severity = "critical"

RecIds == {result[1].recommendations[i].id : i \in 1..Len(result[1].recommendations)}

InRanges(score) ==
  /\ score.breakdown.cpu \in 0..25
  /\ score.breakdown.gpu \in 0..25
  /\ score.breakdown.ram \in 0..20
  /\ score.breakdown.storage \in 0..15
  /\ score.breakdown.settings \in 0..15
  /\ score.total \in 0..100

\* C1: the total is the sum of the five subsystem scores, and cpu, gpu, ram,
\* storage and settings lie in [0,25], [0,25], [0,20], [0,15] and [0,15], so
\* the total lies in [0,100].
C1_ScoreIsSumOfClampedParts ==
  Analyzed =>
    LET score == result[1].score
    IN  /\ score.total = score.breakdown.cpu + score.breakdown.gpu
                           + score.breakdown.ram + score.breakdown.storage
                           + score.breakdown.settings
        /\ InRanges(score)

\* the deductions exceed the base, so that the clamp decides the score
C1_Witness ==
  /\ Analyzed
  /\ result[1].score.breakdown.gpu = 0
  /\ result[1].score.breakdown.ram = 0
  /\ Found("gpu-vram-full")
  /\ Found("thermal-gpu-hot")

\* C2: a model name that resolves to no catalog entry gives the base score 14
\* to the CPU (to the GPU), from which the deductions are taken.
C2_UnknownModelScoresFourteen ==
  Analyzed =>
    /\ lookupCPU(scan.cpu.model_name) = NoEntry =>
         result[1].score.breakdown.cpu =
           clamp(14 - cpuThermalPenalty(scan.cpu) - cpuBoostPenalty(scan.cpu), 0, 25)
    /\ lookupGPU(scan.gpu.model_name) = NoEntry =>
         result[1].score.breakdown.gpu =
           clamp(14 - gpuThermalPenalty(scan.gpu) - gpuVramPenalty(scan.gpu), 0, 25)

\* the rules in the order the evaluators declare them; every per-drive health
\* finding belongs to the one rule "storage-health-"
RuleOrder ==
  << "cpu-high-usage", "cpu-moderate-usage", "cpu-gpu-tier-mismatch",
     "cpu-not-boosting",
     "gpu-limited", "gpu-vram-full", "gpu-cpu-tier-mismatch",
     "ram-single-channel", "ram-low-capacity", "ram-high-usage", "ram-slow-speed",
     "ram-slow-speed-ddr5",
     "storage-hdd-boot", "storage-boot-almost-full", "storage-boot-getting-full",
     "storage-no-nvme", "storage-health-",
     "thermal-cpu-critical", "thermal-cpu-warm", "thermal-gpu-hot",
     "thermal-gpu-warm",
     "settings-power-plan", "settings-xmp-off", "settings-rebar-off",
     "settings-gpu-scheduling", "settings-game-mode-off" >>

RuleRank(b) == CHOOSE k \in 1..Len(RuleOrder) : RuleOrder[k] = b.id[1]

SeverityRank(b) ==
  CHOOSE k \in 1..4 : <<"critical", "warning", "info", "good">>[k] = b.severity

IsHealthFinding(b) == b.id[1] = "storage-health-"

\* C3: the bottleneck list is ordered critical, warning, info, good; findings
\* of equal severity are in detection order (CPU, GPU, RAM, storage, thermal,
\* settings; rule declaration order inside an evaluator; list order of the
\* drives for the per-drive health findings).
C3_BottlenecksBySeverityThenDetection ==
  Analyzed =>
    LET bs == result[1].bottlenecks
        health == SelectSeq(bs, IsHealthFinding)
        sick == SelectIdx(scan.storage,
                          {i \in 1..Len(scan.storage) : unhealthy(scan.storage[i])})
    IN  /\ \A i, j \in 1..Len(bs) :
             i < j =>
               /\ SeverityRank(bs[i]) <= SeverityRank(bs[j])
               /\ SeverityRank(bs[i]) = SeverityRank(bs[j]) =>
                    RuleRank(bs[i]) <= RuleRank(bs[j])
        /\ Len(health) = Len(sick)
        /\ \A k \in 1..Len(health) : health[k].id = healthId(sick[k])

\* the sort moved a settings finding in front of CPU findings, and equal
\* severities from four evaluators stand side by side
C3_Witness ==
  /\ Analyzed
  /\ FoundCritical("settings-xmp-off")
  /\ FoundCritical("thermal-cpu-critical")
  /\ FoundCritical("ram-single-channel")
  /\ Found("cpu-not-boosting")
  /\ \E b \in {result[1].bottlenecks[i] : i \in 1..Len(result[1].bottlenecks)} :
       IsHealthFinding(b)

\* C4: the recommendation list is ordered free, cheap, upgrade with strictly
\* ascending priority inside a tier; the priorities are pairwise distinct; the
\* list is in the order in which buildRecommendations constructed it.
C4_RecommendationsByTierThenPriority ==
  Analyzed =>
    LET rs == result[1].recommendations
    IN  /\ \A i, j \in 1..Len(rs) :
             i < j =>
               /\ tierOrder(rs[i].tier) <= tierOrder(rs[j].tier)
               /\ rs[i].tier = rs[j].tier => rs[i].priority < rs[j].priority
               /\ rs[i].priority # rs[j].priority
        /\ rs = buildRecommendations(scan, result[1].bottlenecks,
                                     lookupCPU(scan.cpu.model_name),
                                     lookupGPU(scan.gpu.model_name))

\* recommendations of all three tiers
C4_Witness ==
  /\ Analyzed
  /\ {"rec-enable-xmp", "rec-check-boost", "rec-cpu-cooling", "rec-ssd-boot",
      "rec-cpu-upgrade"} \subseteq RecIds

\* reading back a decimal numeral
RECURSIVE parseDigits(_)
parseDigits(ds) ==
  IF ds = <<>> THEN 0
  ELSE parseDigits(SubSeq(ds, 1, Len(ds) - 1)) * 10
         + (CHOOSE d \in 0..9 : Digits[d + 1] = ds[Len(ds)])

parseNumber(cs) ==
  IF cs # <<>> /\ Head(cs) = "-" THEN 0 - parseDigits(Tail(cs)) ELSE parseDigits(cs)

\* the two numbers shown by an estimated_cost of the form "$lo - $hi"
ShownRange(cost) ==
  LET k == CHOOSE i \in 1..Len(cost) : cost[i] = " - $"
  IN  <<parseNumber(SubSeq(cost, 2, k - 1)), parseNumber(SubSeq(cost, k + 1, Len(cost)))>>

UpgradeRecs ==
  {r \in {result[1].recommendations[i] : i \in 1..Len(result[1].recommendations)} :
     r.tier = "upgrade"}

CandidatesFor(rec) ==
  IF rec.id = "rec-cpu-upgrade"
    THEN getUpgrades(lookupCPU(scan.cpu.model_name), cpuDatabase, 2)
    ELSE getUpgrades(lookupGPU(scan.gpu.model_name), gpuDatabase, 2)

HasRec(id) == id \in RecIds

\* C6: a free or cheap recommendation is present exactly when the finding
\* that justifies it is in the bottleneck list (rec-enable-xmp: settings-xmp-off
\* or a critical ram-slow-speed or ram-slow-speed-ddr5), an upgrade
\* recommendation only when one of its findings is, and no recommendation id
\* occurs twice.
C6_RecommendationsFollowFindings ==
  Analyzed =>
    /\ HasRec("rec-enable-xmp") <=>
         \/ Found("settings-xmp-off")
         \/ FoundCritical("ram-slow-speed")
         \/ FoundCritical("ram-slow-speed-ddr5")
    /\ HasRec("rec-power-plan") <=> Found("settings-power-plan")
    /\ HasRec("rec-enable-rebar") <=> Found("settings-rebar-off")
    /\ HasRec("rec-gpu-scheduling") <=> Found("settings-gpu-scheduling")
    /\ HasRec("rec-check-boost") <=> Found("cpu-not-boosting")
    /\ HasRec("rec-cpu-cooling") <=> Found("thermal-cpu-critical")
    /\ HasRec("rec-second-ram-stick") <=> Found("ram-single-channel")
    /\ HasRec("rec-more-ram") <=> Found("ram-low-capacity")
    /\ HasRec("rec-ssd-boot") <=> Found("storage-hdd-boot")
    /\ HasRec("rec-cpu-upgrade") =>
         Found("cpu-high-usage") \/ Found("cpu-gpu-tier-mismatch")
    /\ HasRec("rec-gpu-upgrade") =>
         Found("gpu-limited") \/ Found("gpu-cpu-tier-mismatch")
    /\ RecIds \subseteq
         {"rec-enable-xmp", "rec-power-plan", "rec-enable-rebar", "rec-gpu-scheduling",
          "rec-check-boost", "rec-cpu-cooling", "rec-second-ram-stick", "rec-more-ram",
          "rec-ssd-boot", "rec-cpu-upgrade", "rec-gpu-upgrade"}
    /\ Cardinality(RecIds) = Len(result[1].recommendations)

\* XMP is recommended on the strength of the DDR5 speed finding alone
C6_Witness ==
  /\ Analyzed
  /\ HasRec("rec-enable-xmp")
  /\ FoundCritical("ram-slow-speed-ddr5")
  /\ ~Found("settings-xmp-off")
  /\ ~Found("ram-slow-speed")

\* C8: with vram_total_gb = 0 there is no gpu-vram-full finding and no VRAM
\* deduction in the GPU score; with a boot drive of capacity_gb = 0 there is
\* neither storage-boot-almost-full nor storage-boot-getting-full and no usage
\* deduction in the storage score; the score is in range.
C8_ZeroDenominatorsAreSkipped ==
  Analyzed =>
    LET score == result[1].score
        b == bootDriveIndex(scan.storage)
    IN  /\ scan.gpu.vram_total_gb = 0 =>
             /\ ~Found("gpu-vram-full")
             /\ score.breakdown.gpu =
                  clamp(baseScore(lookupGPU(scan.gpu.model_name))
                          - gpuThermalPenalty(scan.gpu), 0, 25)
        /\ (b # 0 /\ scan.storage[b].capacity_gb = 0) =>
             /\ ~Found("storage-boot-almost-full")
             /\ ~Found("storage-boot-getting-full")
             /\ score.breakdown.storage =
                  clamp(storageBase(scan.storage[b])
                          - storageHealthPenalty(scan.storage[b]), 0, 15)
        /\ InRanges(score)

\* VRAM in use on a card that reports no VRAM, analysed
C8_Witness ==
  /\ Analyzed
  /\ scan.gpu.vram_total_gb = 0
  /\ scan.gpu.vram_used_gb > 0
  /\ result[1].score.breakdown.gpu > 0

\* C9: no finding rests on a value that was not measured: null temperatures
\* give no thermal finding, null health gives no health finding, a null toggle
\* gives no settings finding, and an empty usage_per_core gives none of the
\* findings whose guard reads the average utilization.
C9_UnmeasuredValuesEmitNothing ==
  Analyzed =>
    /\ IsNull(scan.cpu.current_temp_c) =>
         ~Found("thermal-cpu-critical") /\ ~Found("thermal-cpu-warm")
    /\ IsNull(scan.gpu.current_temp_c) =>
         ~Found("thermal-gpu-hot") /\ ~Found("thermal-gpu-warm")
    /\ (\A i \in 1..Len(scan.storage) : IsNull(scan.storage[i].health_status)) =>
         \A id \in FindingIds : id[1] # "storage-health-"
    /\ scan.bios_settings.xmp_enabled = "null" => ~Found("settings-xmp-off")
    /\ scan.bios_settings.resizable_bar = "null" => ~Found("settings-rebar-off")
    /\ scan.os.game_mode = "null" => ~Found("settings-game-mode-off")
    /\ scan.os.hw_accelerated_gpu_scheduling = "null" =>
         ~Found("settings-gpu-scheduling")
    /\ scan.cpu.usage_per_core = <<>> =>
         /\ ~Found("cpu-high-usage")
         /\ ~Found("cpu-moderate-usage")
         /\ ~Found("cpu-not-boosting")
         /\ ~Found("gpu-limited")

\* what the lookup is said to return for a normalized input
ClaimedLookup(database, key) ==
  LET exact == {i \in 1..Len(database) : database[i].key = key}
      fuzzy == {i \in 1..Len(database) :
                  includes(key, database[i].key) \/ includes(database[i].key, key)}
  IN  IF exact # {} THEN database[CHOOSE i \in exact : TRUE]
      ELSE IF fuzzy # {} THEN database[SetMin(fuzzy)]
      ELSE NoEntry

\* C10: lookupCPU and lookupGPU return the entry of the key equal to the
\* lower-cased, trimmed input; failing that the entry of the first key in
\* declaration order that contains the input or is contained in it; failing
\* that, none.
C10_LookupIsExactThenFirstSubstring ==
  Analyzed =>
    /\ lookupCPU(scan.cpu.model_name)
         = ClaimedLookup(cpuDatabase, trim(toLowerCase(scan.cpu.model_name)))
    /\ lookupGPU(scan.gpu.model_name)
         = ClaimedLookup(gpuDatabase, trim(toLowerCase(scan.gpu.model_name)))

\* score / max(price, 1) of a is at least that of b
RatioAtLeast(a, b) ==
  LET pa == IF a.current_price_approx > 1 THEN a.current_price_approx ELSE 1
      pb == IF b.current_price_approx > 1 THEN b.current_price_approx ELSE 1
  IN  a.gaming_score * pb >= b.gaming_score * pa

\* C11: getUpgrades returns only entries of a strictly higher tier than the
\* current part, each at most once, in descending order of
\* gaming_score / max(price, 1), and exactly the best min(maxResults, number of
\* higher-tier entries) of them (maxResults being 3 when omitted); so nothing
\* when no entry has a higher tier, also with prices of 0 in the catalog.
C11_UpgradesAreTopValueHigherTier ==
  upgradesCall # <<>> =>
    LET call == upgradesCall[1]
        returned == call.returned
        higher == {i \in 1..Len(cpuDatabase) :
                     tierIndex(cpuDatabase[i].tier) > tierIndex(call.current.tier)}
        chosen == {i \in higher : \E k \in 1..Len(returned) : returned[k] = cpuDatabase[i]}
    IN  /\ \A k \in 1..Len(returned) : \E i \in higher : returned[k] = cpuDatabase[i]
        /\ \A k, l \in 1..Len(returned) : k # l => returned[k] # returned[l]
        /\ Len(returned) = IF Cardinality(higher) < call.maxResults
                             THEN Cardinality(higher) ELSE call.maxResults
        /\ \A k \in 1..(Len(returned) - 1) : RatioAtLeast(returned[k], returned[k + 1])
        /\ \A i \in higher \ chosen :
             \A k \in 1..Len(returned) : RatioAtLeast(returned[k], cpuDatabase[i])

\* a default-sized call that had to drop a candidate and kept a free part
C11_Witness ==
  /\ upgradesCall # <<>>
  /\ upgradesCall[1].maxResults = 3
  /\ Len(upgradesCall[1].returned) = 3
  /\ Cardinality({i \in 1..Len(cpuDatabase) :
                    tierIndex(cpuDatabase[i].tier) > tierIndex(upgradesCall[1].current.tier)}) > 3
  /\ \E k \in 1..3 : upgradesCall[1].returned[k].current_price_approx = 0

\* the entries a catalog declares
Entries(database) == {database[i] : i \in 1..Len(database)}

\* C12: a CPU model that resolves to no entry of the catalog gives neither
\* tier-mismatch finding and no rec-cpu-upgrade; a GPU model that resolves to no
\* entry gives neither tier-mismatch finding and no rec-gpu-upgrade.
C12_NoEntryNoMismatchNoUpgrade ==
  Analyzed =>
    /\ lookupCPU(scan.cpu.model_name) \notin Entries(cpuDatabase) =>
         /\ ~Found("cpu-gpu-tier-mismatch")
         /\ ~Found("gpu-cpu-tier-mismatch")
         /\ ~HasRec("rec-cpu-upgrade")
    /\ lookupGPU(scan.gpu.model_name) \notin Entries(gpuDatabase) =>
         /\ ~Found("cpu-gpu-tier-mismatch")
         /\ ~Found("gpu-cpu-tier-mismatch")
         /\ ~HasRec("rec-gpu-upgrade")

\* the shape a scan document is to have
PassesShapeValidation(data) ==
  /\ RequiredSections \subseteq data.sections
  /\ data.content.storage # <<>>
  /\ data.fields = "typed"

\* C13: every document handed to handleScanLoaded, and so to analyzeScan, has
\* all required sections, a non-empty storage list and typed sub-fields.
C13_OnlyValidatedScansReachAnalyzeScan ==
  loaded # <<>> => PassesShapeValidation(loaded[1])

NoCriticalFinding ==
  \A i \in 1..Len(result[1].bottlenecks) :
    result[1].bottlenecks[i].severity # "critical"

\* the ideal-system scenario, read off the scan
IsIdeal(s) ==
  /\ s.os.game_mode = "true" /\ s.os.hw_accelerated_gpu_scheduling = "true"
  /\ s.bios_settings.resizable_bar = "true" /\ s.bios_settings.xmp_enabled = "true"
  /\ isDDR5(s.ram) /\ ~isDDR4(s.ram) /\ s.ram.speed_mhz = 6000
  /\ s.ram.channel_mode = "dual" /\ s.ram.total_gb = 32
  /\ Len(s.storage) = 1 /\ s.storage[1].is_boot_drive
  /\ s.storage[1].type = "NVMe SSD"
  /\ s.storage[1].used_gb * 2 = s.storage[1].capacity_gb
  /\ \A t \in {s.cpu.current_temp_c, s.gpu.current_temp_c} : t = <<>> \/ t[1] <= 70
  /\ lookupCPU(s.cpu.model_name).tier = "very_high"
  /\ lookupGPU(s.gpu.model_name).tier = "very_high"
  /\ sum(s.cpu.usage_per_core) = 50 * Len(s.cpu.usage_per_core)
  /\ s.gpu.gpu_utilization_pct = 80

OpenFieldDeductions(s) ==
  (IF /\ s.cpu.current_clock_ghz > 0 /\ s.cpu.max_boost_clock_ghz > 0
      /\ s.cpu.current_clock_ghz * 100 < s.cpu.max_boost_clock_ghz * 85
     THEN 3 ELSE 0)
  + (IF s.gpu.vram_total_gb > 0 /\ s.gpu.vram_used_gb * 10 > s.gpu.vram_total_gb * 9
       THEN 3 ELSE 0)
  + (IF s.ram.usage_percent > 85 THEN 3 ELSE 0)
  + (IF s.gpu.driver_version = <<>> THEN 2 ELSE 0)
  + (IF s.os.power_plan \in {PlanHighPerformance, PlanUltimate} THEN 0
     ELSE IF s.os.power_plan = PlanBalanced THEN 2 ELSE 3)
  + (IF s.storage[1].health_status \in {<<>>, <<HealthGood>>} THEN 0 ELSE 5)

MaxTotal == 100

InitGrade ==
  /\ cpuDatabase = CpuCatalog
  /\ gpuDatabase = GpuCatalog
  /\ scan = sampleScan
  /\ result = <<>>
  /\ calls = 0
  /\ upgradesCall = <<>>
  /\ loaded = <<>>
  /\ error = <<>>
  /\ gradeCall = <<>>
  /\ RouteIdle

GetGrade ==
  /\ calls < MaxCalls
  /\ \E total \in 0..MaxTotal :
       gradeCall' = <<[total |-> total, returned |-> getGrade(total)]>>
  /\ calls' = calls + 1
  /\ UNCHANGED <<cpuDatabase, gpuDatabase, scan, result, upgradesCall, loaded, error,
                 routeVars>>

NextGrade == GetGrade

SpecGrade == InitGrade /\ [][NextGrade]_vars

\* the finding id is in the result with this category and severity
FoundAs(id, category, severity) ==
  \E i \in 1..Len(result[1].bottlenecks) :
    result[1].bottlenecks[i] = Bottleneck(id, category, severity)

\* C15: single-channel DDR4 at 2133 with 16 GB at 40% usage gives the critical
\* ram-single-channel and the critical ram-slow-speed finding and a RAM score of
\* at most 2.
C15_SingleChannelSlowDDR4 ==
  (/\ Analyzed
   /\ scan.ram = [total_gb |-> 16, speed_mhz |-> 2133, channel_mode |-> "single",
                  form_factor |-> DimmDDR4, usage_percent |-> 40]) =>
    /\ FoundAs("ram-single-channel", "ram", "critical")
    /\ FoundAs("ram-slow-speed", "ram", "critical")
    /\ result[1].score.breakdown.ram <= 2

\* the scenario analysed: 20 - 10 - 8 - 1 points
C15_Witness ==
  /\ Analyzed
  /\ scan.ram = [total_gb |-> 16, speed_mhz |-> 2133, channel_mode |-> "single",
                 form_factor |-> DimmDDR4, usage_percent |-> 40]
  /\ result[1].score.breakdown.ram = 1

\* C16: a storage list of one boot HDD gives the critical storage-hdd-boot
\* finding and a storage score of at most 5, exactly 5 when the drive is at most
\* 80% full and its health is absent or good.
C16_SoleHddBootDrive ==
  (/\ Analyzed
   /\ Len(scan.storage) = 1
   /\ scan.storage[1].is_boot_drive
   /\ scan.storage[1].type = "HDD") =>
    LET drive == scan.storage[1]
    IN  /\ FoundAs("storage-hdd-boot", "storage", "critical")
        /\ result[1].score.breakdown.storage <= 5
        /\ (/\ drive.capacity_gb > 0
            /\ drive.used_gb * 10 <= drive.capacity_gb * 8
            /\ drive.health_status \in {<<>>, <<HealthGood>>})
           => result[1].score.breakdown.storage = 5

\* a lone boot HDD, well under 80% full and in good health, analysed
C16_Witness ==
  /\ Analyzed
  /\ Len(scan.storage) = 1
  /\ scan.storage[1].is_boot_drive
  /\ scan.storage[1].type = "HDD"
  /\ scan.storage[1].capacity_gb = 953
  /\ scan.storage[1].health_status = <<HealthGood>>
  /\ result[1].score.breakdown.storage = 5

\* C17: the demo scan has at least the settings findings settings-power-plan
\* (warning), settings-xmp-off (critical) and settings-rebar-off (info), and a
\* settings score below 15.
C17_DemoScanSettingsFindings ==
  (Analyzed /\ scan = sampleScan) =>
    /\ FoundAs("settings-power-plan", "settings", "warning")
    /\ FoundAs("settings-xmp-off", "settings", "critical")
    /\ FoundAs("settings-rebar-off", "settings", "info")
    /\ result[1].score.breakdown.settings < 15

\* the demo scan analysed: Balanced (1) + driver (2) + Game Mode (1) points
C17_Witness ==
  /\ Analyzed
  /\ scan = sampleScan
  /\ result[1].score.breakdown.settings = 4

\* the grade table: <<lowest total, one past the highest total, grade, description>>
GradeTable ==
  { <<90, MaxTotal + 1, "A", "Your system is optimized. Nice work.">>,
    <<80, 90, "A-", "Great setup. A few tweaks could squeeze out more performance.">>,
    <<70, 80, "B", "Good, but you're leaving performance on the table.">>,
    <<60, 70, "C", "Several bottlenecks detected. Easy fixes available.">>,
    <<0, 60, "D", "Significant issues found. Major free performance gains possible.">> }

\* C18: the grade depends on the total alone: 90 and above is A, 80..89 A-,
\* 70..79 B, 60..69 C, below 60 D; every total falls in exactly one band and gets
\* that band's grade and description.
C18_GradeByTotal ==
  gradeCall # <<>> =>
    LET total == gradeCall[1].total
        bands == {row \in GradeTable : row[1] <= total /\ total < row[2]}
    IN  /\ Cardinality(bands) = 1
        /\ \A row \in bands :
             gradeCall[1].returned = [grade |-> row[3], grade_description |-> row[4]]

\* the boundary total 90 graded A
C18_Witness ==
  /\ gradeCall # <<>>
  /\ gradeCall[1].total = 90
  /\ gradeCall[1].returned.grade = "A"

\* C19: the CPU score loses the 3 boost points exactly when the
\* cpu-not-boosting finding is emitted (current clock > 0, boost clock > 0,
\* current below 85% of boost, average utilization above 50%).
C19_BoostDeductionFollowsFinding ==
  Analyzed =>
    /\ Found("cpu-not-boosting") <=>
         (belowBoost(scan.cpu) /\ AvgGt(average(scan.cpu.usage_per_core), 50))
    /\ result[1].score.breakdown.cpu =
         clamp(baseScore(lookupCPU(scan.cpu.model_name)) - cpuThermalPenalty(scan.cpu)
                 - (IF Found("cpu-not-boosting") THEN 3 ELSE 0),
               0, 25)

\* the speed deduction as one value: 8 in the critical band, else 3 in the
\* lesser band, else 0
SingleSpeedDeduction(ram) ==
  IF (isDDR4(ram) /\ ram.speed_mhz < 3000) \/ (isDDR5(ram) /\ ram.speed_mhz < 4800) THEN 8
  ELSE IF (isDDR4(ram) /\ ram.speed_mhz < 3200) \/ (isDDR5(ram) /\ ram.speed_mhz < 5600) THEN 3
  ELSE 0

\* what the RAM score loses to channel mode, capacity and usage
OtherRamDeductions(ram) ==
  (IF ram.channel_mode = "single" THEN 10 ELSE 0)
  + (IF ram.total_gb < 16 THEN 5 ELSE IF ram.total_gb < 32 THEN 1 ELSE 0)
  + (IF ram.usage_percent > 85 THEN 3 ELSE 0)

\* C20: the RAM score's speed deduction is one value of 0, 3 and 8 (8 for
\* DDR4 < 3000 or DDR5 < 4800, else 3 for DDR4 < 3200 or DDR5 < 5600, else 0),
\* also for a form factor that names both DDR4 and DDR5.
C20_SingleSpeedDeduction ==
  Analyzed =>
    result[1].score.breakdown.ram =
      clamp(20 - SingleSpeedDeduction(scan.ram) - OtherRamDeductions(scan.ram), 0, 20)

\* C21: the bottleneck ids of one result are pairwise distinct, the per-drive
\* storage-health ids included when several drives are unhealthy.
C21_BottleneckIdsDistinct ==
  Analyzed =>
    \A i, j \in 1..Len(result[1].bottlenecks) :
      i # j => result[1].bottlenecks[i].id # result[1].bottlenecks[j].id

\* the settings credits other than the XMP credit
OtherSettingsPoints(s) ==
  powerPlanPoints(s)
  + (IF Len(s.gpu.driver_version) > 0 THEN 2 ELSE 0)
  + (IF s.bios_settings.resizable_bar = "true" THEN 2 ELSE 0)
  + (IF s.os.game_mode = "true" THEN 1 ELSE 0)
  + (IF s.os.hw_accelerated_gpu_scheduling = "true" THEN 2 ELSE 0)

\* C22: settings-xmp-off (critical) is emitted exactly when xmp_enabled is
\* false, and the settings score gets 5 for true, 2 for null or absent and 0
\* for false.
C22_XmpIsThreeValued ==
  Analyzed =>
    LET xmp == scan.bios_settings.xmp_enabled
    IN  /\ Found("settings-xmp-off") <=> xmp = "false"
        /\ Found("settings-xmp-off") =>
             FoundAs("settings-xmp-off", "settings", "critical")
        /\ result[1].score.breakdown.settings =
             clamp(OtherSettingsPoints(scan)
                     + (IF xmp = "true" THEN 5
                        ELSE IF xmp \in {"null", "undefined"} THEN 2
                        ELSE 0),
                   0, 15)

\* C23: with no flagged drive none of storage-hdd-boot,
\* storage-boot-almost-full and storage-boot-getting-full is emitted and the
\* storage score is 15; with several flagged drives the first in list order is
\* the one the findings and the score come from; at most one of
\* storage-boot-almost-full (ratio > 0.90) and storage-boot-getting-full
\* (0.80 < ratio <= 0.90) is emitted.
C23_BootDriveIsFirstFlagged ==
  Analyzed =>
    LET flagged == {i \in 1..Len(scan.storage) : scan.storage[i].is_boot_drive}
    IN  /\ flagged = {} =>
             /\ ~Found("storage-hdd-boot")
             /\ ~Found("storage-boot-almost-full")
             /\ ~Found("storage-boot-getting-full")
             /\ result[1].score.breakdown.storage = 15
        /\ flagged # {} =>
             LET drive == scan.storage[CHOOSE i \in flagged : \A j \in flagged : i <= j]
                 sized == drive.capacity_gb > 0
             IN  /\ Found("storage-hdd-boot") <=> drive.type = "HDD"
                 /\ Found("storage-boot-almost-full") <=>
                      (sized /\ drive.used_gb * 10 > drive.capacity_gb * 9)
                 /\ Found("storage-boot-getting-full") <=>
                      (/\ sized
                       /\ drive.used_gb * 10 > drive.capacity_gb * 8
                       /\ drive.used_gb * 10 <= drive.capacity_gb * 9)
                 /\ result[1].score.breakdown.storage =
                      clamp(storageBase(drive) - storageUsagePenalty(drive)
                              - storageHealthPenalty(drive), 0, 15)
        /\ ~(Found("storage-boot-almost-full") /\ Found("storage-boot-getting-full"))

\* two flagged drives, an NVMe drive ahead of an HDD, analysed
C23_Witness ==
  /\ Analyzed
  /\ Len(scan.storage) = 2
  /\ scan.storage[1].is_boot_drive /\ scan.storage[1].type = "NVMe SSD"
  /\ scan.storage[1].health_status = <<HealthGood>>
  /\ scan.storage[2].is_boot_drive /\ scan.storage[2].type = "HDD"
  /\ scan.storage[2].health_status = <<HealthCaution>>
  /\ ~Found("storage-hdd-boot")
  /\ Found("storage-boot-almost-full")
  /\ result[1].score.breakdown.storage = 12

\* points by the findings present: the first id's points if it is found, else
\* the second id's
ByFinding(id1, points1, id2, points2) ==
  IF Found(id1) THEN points1 ELSE IF Found(id2) THEN points2 ELSE 0

\* C24: the deductions of the scorer agree with the findings: the CPU score
\* loses 5 iff thermal-cpu-critical and 2 iff thermal-cpu-warm; the GPU score 4
\* iff thermal-gpu-hot, 2 iff thermal-gpu-warm and 3 iff gpu-vram-full; the
\* storage score 3 iff storage-boot-almost-full, 1 iff
\* storage-boot-getting-full and 5 iff the health loop emits a finding for the
\* boot drive; the power-plan credit is below 3 iff settings-power-plan.
C24_DeductionsAgreeWithFindings ==
  Analyzed =>
    LET b == bootDriveIndex(scan.storage)
    IN  /\ ~(Found("thermal-cpu-critical") /\ Found("thermal-cpu-warm"))
        /\ ~(Found("thermal-gpu-hot") /\ Found("thermal-gpu-warm"))
        /\ result[1].score.breakdown.cpu =
             clamp(baseScore(lookupCPU(scan.cpu.model_name))
                     - ByFinding("thermal-cpu-critical", 5, "thermal-cpu-warm", 2)
                     - cpuBoostPenalty(scan.cpu),
                   0, 25)
        /\ result[1].score.breakdown.gpu =
             clamp(baseScore(lookupGPU(scan.gpu.model_name))
                     - ByFinding("thermal-gpu-hot", 4, "thermal-gpu-warm", 2)
                     - (IF Found("gpu-vram-full") THEN 3 ELSE 0),
                   0, 25)
        /\ b # 0 =>
             result[1].score.breakdown.storage =
               clamp(storageBase(scan.storage[b])
                       - ByFinding("storage-boot-almost-full", 3,
                                   "storage-boot-getting-full", 1)
                       - (IF healthFindings(<<scan.storage[b]>>) # <<>> THEN 5 ELSE 0),
                     0, 15)
        /\ powerPlanPoints(scan) < 3 <=> Found("settings-power-plan")

\* a scan with a hot GPU, full VRAM and an unhealthy, nearly full boot drive
\* analysed, every deduction taken
C24_Witness ==
  /\ Analyzed
  /\ Found("thermal-gpu-hot")
  /\ Found("gpu-vram-full")
  /\ Found("storage-boot-almost-full")
  /\ Found("settings-power-plan")
  /\ bootDriveIndex(scan.storage) # 0
  /\ healthFindings(<<scan.storage[bootDriveIndex(scan.storage)]>>) # <<>>
  /\ lookupGPU(scan.gpu.model_name) \in Entries(gpuDatabase)
  /\ result[1].score.breakdown.gpu
       = baseScore(lookupGPU(scan.gpu.model_name)) - 7

\* C25: an empty or whitespace-only CPU (GPU) model name is unknown hardware:
\* the lookup returns none, and no tier-mismatch finding and no upgrade
\* recommendation is produced for the part.
C25_BlankModelNameIsUnknown ==
  Analyzed =>
    /\ trim(scan.cpu.model_name) = <<>> =>
         /\ lookupCPU(scan.cpu.model_name) = NoEntry
         /\ ~Found("cpu-gpu-tier-mismatch")
         /\ ~Found("gpu-cpu-tier-mismatch")
         /\ ~HasRec("rec-cpu-upgrade")
    /\ trim(scan.gpu.model_name) = <<>> =>
         /\ lookupGPU(scan.gpu.model_name) = NoEntry
         /\ ~Found("cpu-gpu-tier-mismatch")
         /\ ~Found("gpu-cpu-tier-mismatch")
         /\ ~HasRec("rec-gpu-upgrade")

\* C26: a call of analyzeScan leaves the scan (the order of scan.storage and
\* of scan.cpu.usage_per_core included) and the CPU and GPU catalogs (their
\* declaration order included) as they were before the call.
C26_AnalyzeScanLeavesInputsUnchanged ==
  [][calls' # calls =>
       /\ scan' = scan
       /\ cpuDatabase' = cpuDatabase
       /\ gpuDatabase' = gpuDatabase]_vars

\* an analysis that went through getUpgrades, on a scan with two drives, with
\* the catalog still in declaration order
C26_Witness ==
  /\ Analyzed
  /\ HasRec("rec-cpu-upgrade")
  /\ Len(scan.storage) = 2
  /\ cpuDatabase = CpuCatalog
  /\ gpuDatabase = GpuCatalog

\* C30: on the Home page, after any scan-loaded and reset events, scan and
\* analysis are both null or both set, and a set analysis is analyzeScan of
\* that scan, also when analyzeScan throws on the loaded data.
C30_ScanAndAnalysisSetTogether ==
  /\ loaded = <<>> <=> result = <<>>
  /\ loaded # <<>> =>
       /\ ~analyzeScanThrows(loaded[1])
       /\ result = <<analyzeScan(loaded[1].content)>>

(***************************************************************************)
(* The /api/scan route: a module-level latestScan, POST and GET.  hardened  *)
(* tells the route with the size guard, the prototype-key check and the    *)
(* sanitizer from the route without them.                                   *)
(***************************************************************************)

MaxRequests == 3

\* 2 * 1024 * 1024
MAX_BODY_SIZE == 2097152

requiredSections == <<"cpu", "gpu", "ram", "storage", "motherboard", "os">>

\* the keys the route tests or skips by name
ProtoKeys == {"__proto__", "constructor", "prototype"}

\* of these, the ones every object inherits from Object.prototype
InheritedKeys == {"__proto__", "constructor"}

\* 'scan-7', '<scan-8>', '<>', 'Ryzen <b>5</b>'
ScanId7 == <<"s","c","a","n","-","7">>
ScanId8Tagged == <<"<","s","c","a","n","-","8",">">>
OnlyAngles == <<"<",">">>
TaggedModel == <<"R","y","z","e","n"," ","<","b",">","5","<","/","b",">">>

\* A parsed JSON body.  json is the kind of the value; own is the set of its
\* own top-level keys; objects the sections holding a non-null object;
\* storage what the storage key holds; the model names are <<>> when no
\* string is there; scan_id and timestamp are <<>> when the key is missing.
validBody ==
  [json |-> "object",
   own |-> {"cpu", "gpu", "ram", "storage", "motherboard", "os"},
   objects |-> {"cpu", "gpu", "ram", "motherboard", "os"},
   storage |-> "drives",
   cpu_model_name |-> <<Ryzen7_5800X>>,
   gpu_model_name |-> <<RTX4070Ti>>,
   ram_total_gb |-> "number",
   scan_id |-> <<>>,
   timestamp |-> <<>>]

Bodies ==
  { validBody,
    [validBody EXCEPT !.own = @ \cup {"scan_id", "timestamp"},
                      !.scan_id = <<ScanId7>>, !.timestamp = <<ScanId7>>],
    [validBody EXCEPT !.own = @ \cup {"scan_id"}, !.scan_id = <<ScanId8Tagged>>],
    [validBody EXCEPT !.own = @ \cup {"scan_id"}, !.scan_id = <<OnlyAngles>>],
    [validBody EXCEPT !.cpu_model_name = <<TaggedModel>>],
    [validBody EXCEPT !.own = @ \cup {"constructor"}],
    [validBody EXCEPT !.own = @ \ {"os"}, !.objects = @ \ {"os"}],
    [validBody EXCEPT !.storage = "empty"],
    [validBody EXCEPT !.storage = "string"],
    [validBody EXCEPT !.objects = @ \ {"cpu"}, !.cpu_model_name = <<>>],
    [validBody EXCEPT !.gpu_model_name = <<>>],
    [validBody EXCEPT !.ram_total_gb = "string"],
    [validBody EXCEPT !.json = "null", !.own = {}, !.objects = {}] }

\* a POST request: the content-length header (<<>> when absent), whether the
\* text is JSON, and the value it parses to
PostRequests ==
  {[contentLength |-> <<>>, parses |-> TRUE, body |-> b] : b \in Bodies}
  \cup {[contentLength |-> <<n>>, parses |-> p, body |-> validBody] :
          n \in {MAX_BODY_SIZE, MAX_BODY_SIZE + 1}, p \in BOOLEAN}
  \cup {[contentLength |-> <<>>, parses |-> FALSE, body |-> validBody]}

\* the readings of Date.now() and Math.random()
Clock == {1, 2}

\* `scan-${Date.now()}-${Math.random()...}`
generatedScanId(t) == <<"s","c","a","n","-">> \o (IF t = 1 THEN <<"1">> ELSE <<"2">>)

\* new Date().toISOString()
toISOString(t) == <<"T">> \o (IF t = 1 THEN <<"1">> ELSE <<"2">>)

\* key in scan: an own key or one found on the prototype chain
In(key, data) == key \in data.own \/ key \in InheritedKeys

sectionError(data, section) ==
  IF ~In(section, data) THEN <<"Missing required field">>
  ELSE IF section = "storage" THEN
    (IF data.storage = "string" THEN <<"storage must be an array">>
     ELSE IF data.storage = "empty" THEN <<"storage must contain at least one drive">>
     ELSE <<>>)
  ELSE IF section \notin data.objects THEN <<"must be a JSON object">>
  ELSE <<>>

RECURSIVE sectionErrors(_, _)
sectionErrors(data, k) ==
  IF k = 0 THEN <<>>
  ELSE sectionErrors(data, k - 1) \o sectionError(data, requiredSections[k])

\* validateScanShape: the list of error messages; guarded adds the
\* prototype-key check of the hardened route
validateScanShape(data, guarded) ==
  IF data.json # "object" THEN <<"Request body must be a JSON object.">>
  ELSE sectionErrors(data, Len(requiredSections))
       \o (IF "cpu" \in data.objects /\ data.cpu_model_name = <<>>
             THEN <<"cpu.model_name is required and must be a string.">> ELSE <<>>)
       \o (IF "gpu" \in data.objects /\ data.gpu_model_name = <<>>
             THEN <<"gpu.model_name is required and must be a string.">> ELSE <<>>)
       \o (IF "ram" \in data.objects /\ data.ram_total_gb # "number"
             THEN <<"ram.total_gb is required and must be a number.">> ELSE <<>>)
       \o (IF guarded /\ \E key \in ProtoKeys : In(key, data)
             THEN <<"Request contains disallowed keys.">> ELSE <<>>)

\* obj.replace(/[<>]/g, "")
stripAngles(s) == SelectIdx(s, {i \in 1..Len(s) : s[i] \notin {"<", ">"}})

\* a value that may be missing, its string sanitized when it is there
sanitizeField(v) == IF v = <<>> THEN <<>> ELSE <<stripAngles(v[1])>>

\* sanitizeObject: every string stripped of < and >, the prototype keys skipped
sanitizeObject(obj) ==
  [obj EXCEPT !.own = @ \ ProtoKeys,
              !.cpu_model_name = sanitizeField(@),
              !.gpu_model_name = sanitizeField(@),
              !.scan_id = sanitizeField(@),
              !.timestamp = sanitizeField(@)]

\* !value for a missing key or an empty string
falsy(v) == v = <<>> \/ v = << <<>> >>

\* the scan as POST stores it: sanitized in the hardened route, scan_id and
\* timestamp assigned when falsy
storedScan(body, guarded, t) ==
  LET s == IF guarded THEN sanitizeObject(body) ELSE body
  IN  [s EXCEPT !.own = @ \cup {"scan_id", "timestamp"},
                !.scan_id = IF falsy(@) THEN <<generatedScanId(t)>> ELSE @,
                !.timestamp = IF falsy(@) THEN <<toISOString(t)>> ELSE @]

\* contentLength && parseInt(contentLength, 10) > MAX_BODY_SIZE
tooLarge(request) ==
  request.contentLength # <<>> /\ request.contentLength[1] > MAX_BODY_SIZE

\* the response of POST once the body is read
postResponse(request, guarded, t) ==
  IF ~request.parses THEN
    [method |-> "POST", status |-> 400,
     body |-> [error |-> "Failed to parse request body. Expected valid JSON."]]
  ELSE IF validateScanShape(request.body, guarded) # <<>> THEN
    [method |-> "POST", status |-> 400,
     body |-> [error |-> "Invalid scan data",
               details |-> validateScanShape(request.body, guarded)]]
  ELSE
    [method |-> "POST", status |-> 201,
     body |-> [ok |-> TRUE, scan_id |-> storedScan(request.body, guarded, t).scan_id[1]]]

\* the assignment ahead of validation: whatever was posted is stored
latestAfter_always(status, latest, stored) == <<stored>>

\* the first accepted scan kept for good
latestAfter_firstWins(status, latest, stored) ==
  IF status = 201 /\ latest = <<>> THEN <<stored>> ELSE latest

\* latestScan after POST answered with this status
latestAfter(status, latest, stored) == IF status = 201 THEN <<stored>> ELSE latest

\* the response of GET
getResponse(latest) ==
  IF latest = <<>> THEN
    [method |-> "GET", status |-> 404,
     body |-> [error |-> "No scan data available. Submit a scan first via POST."]]
  ELSE [method |-> "GET", status |-> 200, body |-> latest[1]]

InitRoute ==
  /\ cpuDatabase = CpuCatalog
  /\ gpuDatabase = GpuCatalog
  /\ scan = sampleScan
  /\ result = <<>>
  /\ calls = 0
  /\ upgradesCall = <<>>
  /\ loaded = <<>>
  /\ error = <<>>
  /\ gradeCall = <<>>
  /\ hardened \in BOOLEAN
  /\ latestScan = <<>>
  /\ reading = <<>>
  /\ response = <<>>
  /\ lastCreated = <<>>
  /\ requests = 0

engineVars ==
  <<cpuDatabase, gpuDatabase, scan, result, calls, upgradesCall, loaded, error, gradeCall>>

\* POST up to `await req.json()`: the size guard answers at once, otherwise
\* the handler waits for the body
PostReceive ==
  /\ requests < MaxRequests
  /\ requests' = requests + 1
  /\ \E request \in PostRequests :
       IF hardened /\ tooLarge(request)
         THEN /\ response' =
                   <<[method |-> "POST", status |-> 413,
                      body |-> [error |-> "Request body too large. Maximum size is 2 MB."]]>>
              /\ UNCHANGED reading
         ELSE /\ reading' = Append(reading, request)
              /\ UNCHANGED response
  /\ UNCHANGED <<hardened, latestScan, lastCreated, engineVars>>

\* POST from the resolution of req.json() to its response, one run to
\* completion; lastCreated records the scan and the scan_id of the 201
PostRespond ==
  \E i \in 1..Len(reading), t \in Clock :
    LET request == reading[i]
        answer  == postResponse(request, hardened, t)
        stored  == storedScan(request.body, hardened, t)
    IN  /\ reading' = SelectIdx(reading, (1..Len(reading)) \ {i})
        /\ response' = <<answer>>
        /\ latestScan' = latestAfter(answer.status, latestScan, stored)
        /\ lastCreated' = IF answer.status = 201
                            THEN <<[scan |-> stored, scan_id |-> answer.body.scan_id]>>
                            ELSE lastCreated
        /\ UNCHANGED <<hardened, requests, engineVars>>

Get ==
  /\ requests < MaxRequests
  /\ requests' = requests + 1
  /\ response' = <<getResponse(latestScan)>>
  /\ UNCHANGED <<hardened, latestScan, reading, lastCreated, engineVars>>

NextRoute == PostReceive \/ PostRespond \/ Get

SpecRoute == InitRoute /\ [][NextRoute]_vars

\* this step is a GET answered
GetStep ==
  /\ requests' = requests + 1
  /\ reading' = reading
  /\ response' # <<>>
  /\ response'[1].method = "GET"

\* this step is a POST answered
PostAnswered ==
  /\ Len(reading') <= Len(reading)
  /\ response' # <<>>
  /\ response'[1].method = "POST"
  /\ (requests' # requests \/ reading' # reading)

WellFormed(request) ==
  /\ request.parses
  /\ ~tooLarge(request)
  /\ request.body.json = "object"
  /\ {"cpu", "gpu", "ram", "motherboard", "os"} \subseteq request.body.objects
  /\ "storage" \in request.body.own /\ request.body.storage = "drives"
  /\ request.body.cpu_model_name # <<>>
  /\ request.body.gpu_model_name # <<>>
  /\ request.body.ram_total_gb = "number"
  /\ request.body.own \cap ProtoKeys = {}

\* C29: in the hardened route a POST of a well-formed body (the six sections,
\* string model names, numeric ram.total_gb, no own key __proto__, constructor
\* or prototype, content-length at most 2 MB) returns 201 with ok true and a
\* non-empty scan_id, and the sanitized scan becomes the latest scan.
C29_HardenedRouteAcceptsWellFormed ==
  [][(hardened /\ Len(reading') < Len(reading)) =>
       \E i \in 1..Len(reading) :
         /\ reading' = SelectIdx(reading, (1..Len(reading)) \ {i})
         /\ WellFormed(reading[i]) =>
              /\ response'[1].status = 201
              /\ response'[1].body.ok
              /\ response'[1].body.scan_id # <<>>
              /\ \E t \in Clock :
                   latestScan' = <<storedScan(reading[i].body, TRUE, t)>>
              /\ getResponse(latestScan').body.scan_id = <<response'[1].body.scan_id>>]_vars

====
